---- MODULE Spec2Model ----
(***************************************************************************)
(* Provenance annotation state (ProvenanceRepository, ProvenanceService)   *)
(* and the SQL rewriter (SqlRewriter) of ap_explanation.                   *)
(***************************************************************************)
EXTENDS Integers, Sequences, FiniteSets, TLC

VARIABLES
    tables,        \* catalog of non-base tables: <<schema, name>> -> set of rows
    provsql,       \* base tables <<schema, table>> that carry the provsql column
    search_path,   \* session search path of the connection
    tmp_provsql,   \* a stale temp table tmp_provsql exists in the session
    provsql_installed, \* the provsql extension is available on the server
    last,          \* the last repository / service call and its outcome
    rw,            \* the last SqlRewriter.rewrite call and its outcome
    dec,           \* the last CtidMapping.decode_equation call and its outcome
    conns          \* requests in progress, each on its own connection, step by step

vars == <<tables, provsql, search_path, tmp_provsql, provsql_installed, last, rw, dec, conns>>

(***************************************************************************)
(* Bounds                                                                  *)
(***************************************************************************)
NumRows == 2          \* rows per base table
MaxProj == 3          \* longest projection list of a query
MaxGroups == 3        \* most fragments of a provenance string
MaxPage == 10         \* largest page number of a token
MaxRow == 12          \* largest row number of a token

(***************************************************************************)
(* Semiring configuration (types/semiring.py, semirings.py)                *)
(***************************************************************************)
None == "None"

Formula ==
    [name |-> "formula", retrieval_function |-> "formula",
     aggregate_function |-> "aggregation_formula",
     mapping_table |-> "formula_mapping"]

Why ==
    [name |-> "why", retrieval_function |-> "whyprov_now",
     aggregate_function |-> None, mapping_table |-> "why_mapping"]

semirings == <<Formula, Why>>

Semirings == {semirings[i] : i \in 1..Len(semirings)}

table_suffix(s) == "_prov" \o s.name

get_provenance_table_name_for(s, table_name) == table_name \o table_suffix(s)

union_table_name(s) == s.name \o "_mapping"

(***************************************************************************)
(* The target database: schemas, base tables and their rows                *)
(***************************************************************************)
SchemasInDb == {"s1", "public", "provsql"}

BaseTables == {<<"s1", "t1">>, <<"s1", "t2">>}

\* Inputs of the calls: s9 is no schema of the database, so s9.t1 and
\* s9.t2 are no tables.
SchemaNames == {"s1", "s9"}
TableNames == {"t1", "t2"}

\* Semiring lists a request can carry: the lists of distinct configured
\* semirings, in every order.
SemiringLists ==
    {<<>>} \cup {<<s>> : s \in Semirings}
           \cup {p \in Semirings \X Semirings : p[1] # p[2]}

\* CtidMapping.encode: the SQL expression 'T@p'||page||'r'||row, evaluated
\* by the database for the row with ctid (page, row).
encode(table_name, page, row) ==
    table_name \o "@p" \o ToString(page) \o "r" \o ToString(row)

\* The provenance token add_provenance gives to a row of a base table.
ProvToken(schema, table_name, row) ==
    schema \o "." \o table_name \o "#" \o ToString(row)

\* Rows create_provenance_mapping writes: SELECT <encode> AS value, provenance.
MappingRows(schema, table_name) ==
    {[value |-> encode(table_name, 0, r),
      provenance |-> ProvToken(schema, table_name, r)] : r \in 1..NumRows}

(***************************************************************************)
(* Database state as a value, so that calls compose                        *)
(***************************************************************************)
Cur == [tables |-> tables, provsql |-> provsql,
        search_path |-> search_path, tmp_provsql |-> tmp_provsql,
        provsql_installed |-> provsql_installed]

Outcome(st, ret, exc) == [st |-> st, ret |-> ret, exc |-> exc]

\* pg_catalog.pg_tables restricted to one schema: the table names.
pg_tables(st, schema) ==
    {t[2] : t \in {b \in BaseTables : b[1] = schema}}
        \cup {t[2] : t \in {d \in DOMAIN st.tables : d[1] = schema}}

\* Resolution of an unqualified relation name through the search path.
Resolve(st, name) ==
    LET hits == SelectSeq(st.search_path, LAMBDA sc : name \in pg_tables(st, sc))
    IN IF hits = <<>> THEN None ELSE Head(hits)

\* Schema in which an unqualified CREATE TABLE creates: the first schema of
\* the search path that exists.
CreationSchema(st) ==
    LET hits == SelectSeq(st.search_path, LAMBDA sc : sc \in SchemasInDb)
    IN Head(hits)

DropTable(tabs, key) == [k \in DOMAIN tabs \ {key} |-> tabs[k]]

PutTable(tabs, key, rows) ==
    [k \in DOMAIN tabs \cup {key} |-> IF k = key THEN rows ELSE tabs[k]]

\* ProvenanceRepository._set_search_path
set_search_path(st, schema_name) ==
    [st EXCEPT !.search_path = <<schema_name, "public", "provsql">>]

(***************************************************************************)
(* Native calls of the provsql extension, as the repository uses them      *)
(***************************************************************************)
\* CREATE EXTENSION IF NOT EXISTS provsql CASCADE: fails when the server
\* does not have the extension.
create_extension(st) ==
    IF st.provsql_installed THEN [st |-> st, err |-> None]
    ELSE [st |-> st, err |-> "UndefinedFile"]

\* SELECT add_provenance(T): "ok", or the database error it ends with.
add_provenance(st, table_name) ==
    LET sc == Resolve(st, table_name)
    IN IF ~ st.provsql_installed THEN [st |-> st, err |-> "UndefinedFunction"]
       ELSE IF sc = None THEN [st |-> st, err |-> "UndefinedTable"]
       ELSE IF <<sc, table_name>> \in st.provsql
            THEN [st |-> st, err |-> "DuplicateColumn"]
       ELSE [st |-> [st EXCEPT !.provsql = @ \cup {<<sc, table_name>>}],
             err |-> None]

\* SELECT remove_provenance(T)
native_remove_provenance(st, table_name) ==
    LET sc == Resolve(st, table_name)
    IN IF ~ st.provsql_installed THEN [st |-> st, err |-> "UndefinedFunction"]
       ELSE IF sc = None THEN [st |-> st, err |-> "UndefinedTable"]
       ELSE IF <<sc, table_name>> \notin st.provsql
            THEN [st |-> st, err |-> "UndefinedColumn"]
       ELSE [st |-> [st EXCEPT !.provsql = @ \ {<<sc, table_name>>}],
             err |-> None]

\* SELECT create_provenance_mapping(prov_table, T, encode(T)): copies T into
\* the temp table tmp_provsql, renames its provsql column, then creates
\* prov_table from it.
create_provenance_mapping(st, prov_table, table_name) ==
    LET sc == Resolve(st, table_name)
        cs == CreationSchema(st)
    IN IF ~ st.provsql_installed THEN [st |-> st, err |-> "UndefinedFunction"]
       ELSE IF sc = None THEN [st |-> st, err |-> "UndefinedTable"]
       ELSE IF st.tmp_provsql THEN [st |-> st, err |-> "DuplicateTable"]
       ELSE IF <<sc, table_name>> \notin st.provsql
            THEN [st |-> st, err |-> "UndefinedColumn"]
       ELSE IF prov_table \in pg_tables(st, cs)
            THEN [st |-> st, err |-> "DuplicateTable"]
       ELSE [st |-> [st EXCEPT !.tables =
                        PutTable(@, <<cs, prov_table>>, MappingRows(sc, table_name))],
             err |-> None]

(***************************************************************************)
(* ProvenanceRepository                                                    *)
(***************************************************************************)
\* tablename LIKE '%<suffix>': '_' in the pattern matches any one character.
Like(name, suffix) ==
    /\ Len(name) >= Len(suffix)
    /\ \A i \in 1..Len(suffix) :
          \/ SubSeq(suffix, i, i) = "_"
          \/ SubSeq(name, Len(name) - Len(suffix) + i, Len(name) - Len(suffix) + i)
                = SubSeq(suffix, i, i)

\* UPDATE ... SET value = '{"{' || value || '}"}'
Reformat(row) == [row EXCEPT !.value = "{\"{" \o @ \o "}\"}"]

\* The rows CREATE TABLE ... AS SELECT * FROM a UNION SELECT * FROM b ...
\* produces (UNION removes duplicate rows).
UnionRows(st, schema_name, names) ==
    UNION {st.tables[<<schema_name, n>>] : n \in names}

PrimaryKeyOk(rows) ==
    \A r1 \in rows, r2 \in rows : r1.provenance = r2.provenance => r1 = r2

\* Variant without the early return: with no mapping table the union table
\* is dropped all the same and the call reports a rebuild.
_rebuild_union_mapping_no_early_return(st, schema_name, semiring) ==
    LET st1 == set_search_path(st, schema_name)
        provwhy_tables ==
            {n \in pg_tables(st1, schema_name) : Like(n, table_suffix(semiring))}
        name == union_table_name(semiring)
        dropped == DropTable(st1.tables, <<schema_name, name>>)
        created == {Reformat(r) : r \in UnionRows(st1, schema_name, provwhy_tables)}
    IN IF provwhy_tables = {} THEN Outcome([st1 EXCEPT !.tables = dropped], TRUE, None)
       ELSE IF ~ PrimaryKeyOk(created) THEN Outcome(st1, FALSE, "UniqueViolation")
       ELSE Outcome([st1 EXCEPT !.tables = PutTable(dropped, <<schema_name, name>>, created)],
                    TRUE, None)

\* Variant: the rows of the mapping tables are added to the union table
\* that is there, which is not dropped.
_rebuild_union_mapping_incremental(st, schema_name, semiring) ==
    LET st1 == set_search_path(st, schema_name)
        provwhy_tables ==
            {n \in pg_tables(st1, schema_name) : Like(n, table_suffix(semiring))}
        name == union_table_name(semiring)
        before == IF <<schema_name, name>> \in DOMAIN st1.tables
                  THEN st1.tables[<<schema_name, name>>] ELSE {}
        created == before \cup {Reformat(r) : r \in UnionRows(st1, schema_name, provwhy_tables)}
    IN IF provwhy_tables = {} THEN Outcome(st1, FALSE, None)
       ELSE IF ~ PrimaryKeyOk(created) THEN Outcome(st1, FALSE, "UniqueViolation")
       ELSE Outcome([st1 EXCEPT !.tables = PutTable(@, <<schema_name, name>>, created)],
                    TRUE, None)

\* _rebuild_union_mapping
_rebuild_union_mapping(st, schema_name, semiring) ==
    LET st1 == set_search_path(st, schema_name)
        provwhy_tables ==
            {n \in pg_tables(st1, schema_name) : Like(n, table_suffix(semiring))}
        name == union_table_name(semiring)
        dropped == DropTable(st1.tables, <<schema_name, name>>)
        created == {Reformat(r) : r \in UnionRows(st1, schema_name, provwhy_tables)}
    IN IF provwhy_tables = {} THEN Outcome(st1, FALSE, None)
       ELSE IF ~ PrimaryKeyOk(created) THEN Outcome(st1, FALSE, "UniqueViolation")
       ELSE Outcome([st1 EXCEPT !.tables = PutTable(dropped, <<schema_name, name>>, created)],
                    TRUE, None)

\* Variant: a duplicate column is not told apart from a new one.
enable_provenance_always_new(st, schema_name, table_name) ==
    LET st1 == set_search_path(st, schema_name)
        x == create_extension(st1)
        r == add_provenance(st1, table_name)
    IN IF x.err \in {"UndefinedFile", "FeatureNotSupported"}
       THEN Outcome(st1, FALSE, "ProvSqlMissingError")
       ELSE IF r.err = "UndefinedTable"
       THEN Outcome(st1, FALSE, "TableOrSchemaNotFoundError")
       ELSE Outcome(r.st, TRUE, None)

\* enable_provenance
enable_provenance(st, schema_name, table_name) ==
    LET st1 == set_search_path(st, schema_name)
        x == create_extension(st1)
        r == add_provenance(st1, table_name)
    IN IF x.err \in {"UndefinedFile", "FeatureNotSupported"}
       THEN Outcome(st1, FALSE, "ProvSqlMissingError")
       ELSE IF r.err = "UndefinedTable"
       THEN Outcome(st1, FALSE, "TableOrSchemaNotFoundError")
       ELSE IF r.err = "DuplicateColumn" THEN Outcome(st1, FALSE, None)
       ELSE Outcome(r.st, TRUE, None)

\* add_semiring that reports the semiring as newly created also when the
\* mapping table already existed.
add_semiring_always_created(st, schema_name, table_name, semiring) ==
    LET prov_table == get_provenance_table_name_for(semiring, table_name)
        st1 == set_search_path(st, schema_name)
        st2 == [st1 EXCEPT !.tmp_provsql = FALSE]
        r == create_provenance_mapping(st2, prov_table, table_name)
        u == _rebuild_union_mapping(r.st, schema_name, semiring)
    IN IF r.err \notin {None, "DuplicateTable"} THEN Outcome(st2, FALSE, r.err)
       ELSE IF u.exc # None THEN Outcome(r.st, FALSE, u.exc)
       ELSE Outcome(u.st, TRUE, None)

\* add_semiring
add_semiring(st, schema_name, table_name, semiring) ==
    LET prov_table == get_provenance_table_name_for(semiring, table_name)
        st1 == set_search_path(st, schema_name)
        st2 == [st1 EXCEPT !.tmp_provsql = FALSE]
        r == create_provenance_mapping(st2, prov_table, table_name)
        semiring_created == (r.err = None)
        u == _rebuild_union_mapping(r.st, schema_name, semiring)
    IN IF r.err \notin {None, "DuplicateTable"} THEN Outcome(st2, FALSE, r.err)
       ELSE IF u.exc # None THEN Outcome(r.st, FALSE, u.exc)
       ELSE Outcome(u.st, semiring_created, None)

\* remove_semiring that drops and rebuilds only when the table existed but
\* reports success in either case.
remove_semiring_always_true(st, schema_name, table_name, semiring) ==
    LET prov_table == get_provenance_table_name_for(semiring, table_name)
        st1 == set_search_path(st, schema_name)
        table_existed == prov_table \in pg_tables(st1, schema_name)
        sc == Resolve(st1, prov_table)
        st2 == [st1 EXCEPT !.tables = DropTable(@, <<sc, prov_table>>)]
        u == _rebuild_union_mapping(st2, schema_name, semiring)
    IN IF ~ table_existed THEN Outcome(st1, TRUE, None)
       ELSE IF u.exc # None THEN Outcome(st2, FALSE, u.exc)
       ELSE Outcome(u.st, TRUE, None)

\* remove_semiring
remove_semiring(st, schema_name, table_name, semiring) ==
    LET prov_table == get_provenance_table_name_for(semiring, table_name)
        st1 == set_search_path(st, schema_name)
        table_existed == prov_table \in pg_tables(st1, schema_name)
        sc == Resolve(st1, prov_table)
        st2 == [st1 EXCEPT !.tables = DropTable(@, <<sc, prov_table>>)]
        u == _rebuild_union_mapping(st2, schema_name, semiring)
    IN IF ~ table_existed THEN Outcome(st1, FALSE, None)
       ELSE IF u.exc # None THEN Outcome(st2, FALSE, u.exc)
       ELSE Outcome(u.st, TRUE, None)

\* remove_provenance
remove_provenance(st, schema_name, table_name) ==
    LET st1 == set_search_path(st, schema_name)
        r == native_remove_provenance(st1, table_name)
    IN IF r.err \notin {None, "UndefinedColumn"} THEN Outcome(st1, FALSE, r.err)
       ELSE Outcome(r.st, FALSE, None)

(***************************************************************************)
(* CtidMapping: decoding of provenance strings                             *)
(***************************************************************************)
\* The character at position i; the empty string beyond the end.
Ch(str, i) == IF i \in 1..Len(str) THEN SubSeq(str, i, i) ELSE ""

Digits == {"0", "1", "2", "3", "4", "5", "6", "7", "8", "9"}

\* int(<digits>)
RECURSIVE int(_)
int(str) ==
    IF str = "" THEN 0
    ELSE 10 * int(SubSeq(str, 1, Len(str) - 1))
            + (CHOOSE d \in 0..9 : ToString(d) = Ch(str, Len(str)))

\* End of the longest run of characters of [^{}@] that starts at i (the
\* index after its last character; i when the run is empty).
RECURSIVE NameEnd(_, _)
NameEnd(str, i) ==
    IF i <= Len(str) /\ Ch(str, i) \notin {"{", "}", "@"}
    THEN NameEnd(str, i + 1) ELSE i

\* The same for \d.
RECURSIVE DigitsEnd(_, _)
DigitsEnd(str, i) ==
    IF i <= Len(str) /\ Ch(str, i) \in Digits THEN DigitsEnd(str, i + 1) ELSE i

\* Match of \{([^{}@]+)@p(\d+)r(\d+)\} at position i. Each repetition is
\* followed by a character outside its class, so the longest run is the
\* only candidate.
MatchAt(str, i) ==
    LET t0 == i + 1
        t1 == NameEnd(str, t0)
        p0 == t1 + 2
        p1 == DigitsEnd(str, p0)
        r0 == p1 + 1
        r1 == DigitsEnd(str, r0)
        ok == /\ Ch(str, i) = "{"
              /\ t1 > t0
              /\ Ch(str, t1) = "@"
              /\ Ch(str, t1 + 1) = "p"
              /\ p1 > p0
              /\ Ch(str, p1) = "r"
              /\ r1 > r0
              /\ Ch(str, r1) = "}"
    IN [ok |-> ok, end |-> r1 + 1,
        groups |-> IF ok THEN <<SubSeq(str, t0, t1 - 1), SubSeq(str, p0, p1 - 1),
                                SubSeq(str, r0, r1 - 1)>>
                   ELSE <<>>]

\* reg.findall(values): the non-overlapping matches, scanning left to right.
RECURSIVE findall(_, _)
findall(str, i) ==
    IF i > Len(str) THEN <<>>
    ELSE LET m == MatchAt(str, i)
         IN IF m.ok THEN <<m.groups>> \o findall(str, m.end)
            ELSE findall(str, i + 1)

RowCtid(table, page, row) == [table |-> table, page |-> page, row |-> row]

\* Variant: only the first match is decoded (search instead of findall).
decode_equation_first(values) ==
    LET found == findall(values, 1)
    IN [ret |-> IF found = <<>> THEN <<>>
                ELSE <<RowCtid(found[1][1], int(found[1][2]), int(found[1][3]))>>,
        exc |-> None]

\* decode_equation
decode_equation(values) ==
    LET found == findall(values, 1)
    IN [ret |-> [k \in 1..Len(found) |->
                    RowCtid(found[k][1], int(found[k][2]), int(found[k][3]))],
        exc |-> None]

\* Fragments of a provenance string: well-formed tokens {T@p<page>r<row>},
\* mapping values as the union table stores them, fragments that lack the
\* '@', the page group or the row group, and a separator.
DecodeTables == {"t1", "p1r2"}

Fragment(kind, text, table, page, row) ==
    [kind |-> kind, text |-> text, ref |-> RowCtid(table, page, row)]

Fragments ==
    {Fragment("token", "{" \o encode(t, p, r) \o "}", t, p, r) :
        t \in DecodeTables, p \in {0, MaxPage}, r \in {1, MaxRow}}
    \cup {Fragment("token",
                   Reformat([value |-> encode("t1", 0, r), provenance |-> ""]).value,
                   "t1", 0, r) : r \in {1, MaxRow}}
    \cup {Fragment("malformed", "{t1p0r1}", "", 0, 0),
          Fragment("malformed", "{t1@r1}", "", 0, 0),
          Fragment("malformed", "{t1@p0}", "", 0, 0),
          Fragment("separator", ",", "", 0, 0)}

RECURSIVE FragmentLists(_)
FragmentLists(n) ==
    IF n = 0 THEN {<<>>}
    ELSE FragmentLists(n - 1)
            \cup {Append(l, f) : l \in {k \in FragmentLists(n - 1) : Len(k) = n - 1},
                                 f \in Fragments}

RECURSIVE Join(_)
Join(frs) == IF frs = <<>> THEN "" ELSE Head(frs).text \o Join(Tail(frs))

NoDecode ==
    [fragments |-> <<>>, values |-> "", called |-> FALSE,
     out |-> [ret |-> <<>>, exc |-> None]]

\* No request is run step by step.
NoConns == <<>>

(***************************************************************************)
(* SQL syntax trees (sqlglot expressions), as SqlRewriter sees them        *)
(***************************************************************************)
\* A node: its class, its name (identifier, alias, function name or literal
\* text), the table qualifier of a column, the list-valued "expressions"
\* argument (projections of a SELECT, arguments of a call) and its other
\* child nodes in argument order.
Node(type, name, table, expressions, args) ==
    [type |-> type, name |-> name, table |-> table,
     expressions |-> expressions, args |-> args]

NullNode == Node("Null", "", "", <<>>, <<>>)

Column(name, table) == Node("Column", name, table, <<>>, <<>>)

Literal_string(text) == Node("Literal", text, "", <<>>, <<>>)

Anonymous(this, expressions) == Node("Anonymous", this, "", expressions, <<>>)

AggFunc(name, arg) == Node("AggFunc", name, "", <<>>, <<arg>>)

Subquery(this, alias) == Node("Subquery", alias, "", <<>>, <<this>>)

\* sqlglot.expressions.alias_
alias_(e, alias_name) == Node("Alias", alias_name, "", <<>>, <<e>>)

Select(expressions, args) == Node("Select", "", "", expressions, args)

\* Expression.iter_expressions
Children(node) == node.expressions \o node.args

\* Expression.walk(bfs=True)
RECURSIVE Walk(_)
Walk(queue) ==
    IF queue = <<>> THEN <<>>
    ELSE <<Head(queue)>> \o Walk(Tail(queue) \o Children(Head(queue)))

\* Expression.find_all
find_all(node, type) == SelectSeq(Walk(<<node>>), LAMBDA n : n.type = type)

\* Expression.find
find(node, type) ==
    IF find_all(node, type) = <<>> THEN NullNode ELSE Head(find_all(node, type))

\* select.args.get(key)
HasArg(node, type) == \E i \in 1..Len(node.args) : node.args[i].type = type

\* Expression.alias_or_name: the alias, else the text of "this" when that is
\* an identifier, a literal or a string, else the empty string.
alias_or_name(e) ==
    IF e.type \in {"Alias", "Column", "Star", "Literal", "Anonymous", "Subquery"}
    THEN e.name ELSE ""

(***************************************************************************)
(* SqlRewriter                                                             *)
(***************************************************************************)
RandLo == 1000
RandHi == 9999

\* Values of random.randint(1000, 9999) the model draws.
AliasCounters == {RandLo, RandHi}

\* SemiringOperationNotSupportedError.__init__
SemiringOperationNotSupportedError(semiring_name, operation) ==
    IF semiring_name # "" /\ operation # ""
    THEN "The semiring '" \o semiring_name \o "' does not support " \o operation
            \o ". Please use a different semiring that supports this operation."
    ELSE IF semiring_name # ""
    THEN "The semiring '" \o semiring_name \o "' does not support this operation."
    ELSE "This operation is not supported by the selected semiring."

Raised(exc, msg, path) == [exc |-> exc, msg |-> msg, path |-> path, ast |-> NullNode]

Returned(ast, path) == [exc |-> None, msg |-> "", path |-> path, ast |-> ast]

\* _contains_aggregate_not_in_subquery
\* Variant: an aggregate counts wherever it is, nested subqueries included.
_contains_aggregate_anywhere(node) ==
    \E i \in 1..Len(Walk(<<node>>)) : Walk(<<node>>)[i].type = "AggFunc"

RECURSIVE _contains_aggregate_not_in_subquery(_)
_contains_aggregate_not_in_subquery(node) ==
    IF node.type = "AggFunc" THEN TRUE
    ELSE IF node.type \in {"Subquery", "Select"} THEN FALSE
    ELSE \E i \in 1..Len(Children(node)) :
            _contains_aggregate_not_in_subquery(Children(node)[i])

\* _has_top_level_aggregates
_has_top_level_aggregates(select) ==
    \E i \in 1..Len(select.expressions) :
        _contains_aggregate_not_in_subquery(select.expressions[i])

\* Variant: the retrieval call is put in front of the projections.
_rewrite_non_aggregate_prepend(ast, semiring) ==
    IF ast.type # "Select"
    THEN Raised("ValueError", "Expected SELECT query", "non_aggregate")
    ELSE Returned(
            [ast EXCEPT !.expressions =
                <<Anonymous(semiring.retrieval_function,
                            <<Anonymous("provenance", <<>>),
                              Literal_string(semiring.mapping_table)>>)>> \o @],
            "non_aggregate")

\* _rewrite_non_aggregate
_rewrite_non_aggregate(ast, semiring) ==
    IF ast.type # "Select"
    THEN Raised("ValueError", "Expected SELECT query", "non_aggregate")
    ELSE Returned(
            [ast EXCEPT !.expressions =
                Append(@, Anonymous(semiring.retrieval_function,
                                    <<Anonymous("provenance", <<>>),
                                      Literal_string(semiring.mapping_table)>>))],
            "non_aggregate")

\* Variant: every aggregate-bearing projection gets a generated alias, the
\* ones that already are an Alias included.
RECURSIVE AliasAggregates_all(_, _)
AliasAggregates_all(es, alias_counter) ==
    IF es = <<>> THEN <<>>
    ELSE IF _contains_aggregate_not_in_subquery(Head(es))
         THEN <<alias_(Head(es), "agg_result_" \o ToString(alias_counter))>>
                 \o AliasAggregates_all(Tail(es), alias_counter + 1)
         ELSE <<Head(es)>> \o AliasAggregates_all(Tail(es), alias_counter)

\* The loop of _rewrite_aggregate over the projections: every
\* aggregate-bearing projection that is no Alias gets agg_result_<counter>.
RECURSIVE AliasAggregates(_, _)
AliasAggregates(es, alias_counter) ==
    IF es = <<>> THEN <<>>
    ELSE IF _contains_aggregate_not_in_subquery(Head(es)) /\ Head(es).type # "Alias"
         THEN <<alias_(Head(es), "agg_result_" \o ToString(alias_counter))>>
                 \o AliasAggregates(Tail(es), alias_counter + 1)
         ELSE <<Head(es)>> \o AliasAggregates(Tail(es), alias_counter)

\* Variant: the aggregate call is wired to the last aggregate projection.
_rewrite_aggregate_last(ast, semiring, alias_counter) ==
    LET initial_select == find(ast, "Select")
        aliased == [initial_select EXCEPT
                        !.expressions = AliasAggregates(@, alias_counter)]
        proj_agg == SelectSeq(aliased.expressions, _contains_aggregate_not_in_subquery)
        proj_non_agg == SelectSeq(aliased.expressions,
                                  LAMBDA e : ~ _contains_aggregate_not_in_subquery(e))
        agg == proj_agg[Len(proj_agg)]
        subquery == Subquery(aliased, "x")
        outer_columns ==
            [i \in 1..Len(proj_non_agg) |->
                Column(alias_or_name(proj_non_agg[i]), "x")]
            \o <<Anonymous(semiring.aggregate_function,
                           <<Column(alias_or_name(agg), "x"),
                             Literal_string(semiring.mapping_table)>>)>>
    IN IF initial_select = NullNode
       THEN Raised("ValueError", "Expected query to be a SELECT query", "aggregate")
       ELSE IF Len(proj_agg) = 0
       THEN Raised("ValueError", "No aggregate found in query", "aggregate")
       ELSE Returned(Select(outer_columns, <<Node("From", "", "", <<>>, <<subquery>>)>>),
                     "aggregate")

\* _rewrite_aggregate
_rewrite_aggregate(ast, semiring, alias_counter) ==
    LET initial_select == find(ast, "Select")
        aliased == [initial_select EXCEPT
                        !.expressions = AliasAggregates(@, alias_counter)]
        proj_agg == SelectSeq(aliased.expressions, _contains_aggregate_not_in_subquery)
        proj_non_agg == SelectSeq(aliased.expressions,
                                  LAMBDA e : ~ _contains_aggregate_not_in_subquery(e))
        agg == proj_agg[1]
        subquery_alias == "x"
        subquery == Subquery(aliased, subquery_alias)
        outer_columns ==
            [i \in 1..Len(proj_non_agg) |->
                Column(alias_or_name(proj_non_agg[i]), subquery_alias)]
            \o <<Anonymous(semiring.aggregate_function,
                           <<Column(alias_or_name(agg), subquery_alias),
                             Literal_string(semiring.mapping_table)>>)>>
    IN IF initial_select = NullNode
       THEN Raised("ValueError", "Expected query to be a SELECT query", "aggregate")
       ELSE IF Len(proj_agg) = 0
       THEN Raised("ValueError", "No aggregate found in query", "aggregate")
       ELSE Returned(Select(outer_columns, <<Node("From", "", "", <<>>, <<subquery>>)>>),
                     "aggregate")

\* Variant: the semiring's support for aggregation is not checked.
rewrite_unchecked(ast, semiring, alias_counter) ==
    LET outer_select == find(ast, "Select")
    IN IF outer_select = NullNode
       THEN Raised("ValueError", "Expected SELECT query", "none")
       ELSE IF find_all(outer_select, "Having") # <<>>
       THEN Raised("NotImplementedError",
                   "HAVING queries are not supported yet, rewrite your SQL with nested SELECTs.",
                   "none")
       ELSE IF ~ _has_top_level_aggregates(outer_select) \/ ~ HasArg(outer_select, "Group")
       THEN _rewrite_non_aggregate(ast, semiring)
       ELSE _rewrite_aggregate(ast, semiring, alias_counter)

\* rewrite
rewrite(ast, semiring, alias_counter) ==
    LET outer_select == find(ast, "Select")
    IN IF outer_select = NullNode
       THEN Raised("ValueError", "Expected SELECT query", "none")
       ELSE IF find_all(outer_select, "Having") # <<>>
       THEN Raised("NotImplementedError",
                   "HAVING queries are not supported yet, rewrite your SQL with nested SELECTs.",
                   "none")
       ELSE IF ~ _has_top_level_aggregates(outer_select) \/ ~ HasArg(outer_select, "Group")
       THEN _rewrite_non_aggregate(ast, semiring)
       ELSE IF semiring.aggregate_function = None
       THEN Raised("SemiringOperationNotSupportedError",
                   SemiringOperationNotSupportedError(semiring.name, "aggregate queries"),
                   "aggregate")
       ELSE _rewrite_aggregate(ast, semiring, alias_counter)

(***************************************************************************)
(* Queries given to the rewriter                                           *)
(***************************************************************************)
Table(name) == Node("Table", name, "", <<>>, <<>>)

From(this) == Node("From", "", "", <<>>, <<this>>)

Where == Node("Where", "cond", "", <<>>, <<>>)

Group == Node("Group", "", "", <<Column("col1", "")>>, <<>>)

Having ==
    Node("Having", "", "", <<>>,
         <<Node("GT", "", "", <<>>,
                <<AggFunc("COUNT", Node("Star", "*", "", <<>>, <<>>)),
                  Literal_string("1")>>)>>)

\* col1 | t.name | SUM(col2) AS total | COUNT(*) | (SELECT MAX(col2) FROM t2)
ProjExprs ==
    {Column("col1", ""),
     Column("name", "t"),
     alias_(AggFunc("SUM", Column("col2", "")), "total"),
     AggFunc("COUNT", Node("Star", "*", "", <<>>, <<>>)),
     Subquery(Select(<<AggFunc("MAX", Column("col2", ""))>>, <<From(Table("t2"))>>), "")}

RECURSIVE SeqsOfLen(_, _)
SeqsOfLen(S, n) ==
    IF n = 0 THEN {<<>>}
    ELSE {Append(q, x) : q \in SeqsOfLen(S, n - 1), x \in S}

ProjLists == UNION {SeqsOfLen(ProjExprs, n) : n \in 1..MaxProj}

\* FROM t1 WHERE cond | FROM (SELECT col1 FROM t2 GROUP BY col1 HAVING ...) AS d
Froms ==
    {<<From(Table("t1")), Where>>,
     <<From(Subquery(Select(<<Column("col1", "")>>,
                            <<From(Table("t2")), Group, Having>>), "d"))>>}

Clauses(from, g, h) ==
    from \o (IF g THEN <<Group>> ELSE <<>>) \o (IF h THEN <<Having>> ELSE <<>>)

SelectQueries ==
    {Select(p, Clauses(from, g, h)) :
        p \in ProjLists, from \in Froms, g \in BOOLEAN, h \in BOOLEAN}

\* SELECTs over the plain table, used inside statements of another kind.
InnerSelects ==
    {Select(p, Clauses(<<From(Table("t1")), Where>>, g, h)) :
        p \in ProjLists, g \in BOOLEAN, h \in BOOLEAN}

\* SELECT col1 FROM t2 GROUP BY col1 HAVING COUNT(*) > 1
UnionRight ==
    {Select(<<Column("col1", "")>>, Clauses(<<From(Table("t2"))>>, TRUE, TRUE))}

\* q | q UNION r | INSERT INTO t2 q | DELETE FROM t1 WHERE cond
Queries ==
    SelectQueries
        \cup {Node("Union", "", "", <<>>, <<q, r>>) : q \in InnerSelects, r \in UnionRight}
        \cup {Node("Insert", "", "", <<>>, <<Table("t2"), q>>) : q \in InnerSelects}
        \cup {Node("Delete", "", "", <<>>, <<Table("t1"), Where>>)}

(***************************************************************************)
(* ProvenanceRepository._fetch_related_data                                *)
(***************************************************************************)
\* A ctid as the database renders it and as f"({page},{row})" builds it.
CtidText(page, row) == "(" \o ToString(page) \o "," \o ToString(row) \o ")"

\* SELECT *, ctid FROM <table>: the rows of a base table, all on page 0.
TableRows(schema, table_name) ==
    IF <<schema, table_name>> \in BaseTables
    THEN {[ctid |-> CtidText(0, r), id |-> r, name |-> table_name \o "#" \o ToString(r)] :
             r \in 1..NumRows}
    ELSE {}

\* table_groups.keys(): the tables of the references, by first appearance.
RECURSIVE GroupKeys(_)
GroupKeys(matches) ==
    IF matches = <<>> THEN <<>>
    ELSE LET rest == GroupKeys(SubSeq(matches, 1, Len(matches) - 1))
             t == matches[Len(matches)].table
         IN IF \E i \in 1..Len(rest) : rest[i] = t THEN rest ELSE Append(rest, t)

\* row = dict(row); row.pop('ctid', None)
RowData(row) == [f \in DOMAIN row \ {"ctid"} |-> row[f]]

\* f"{table}@p{r['page']}r{r['row']}"
Reference(table, r) == table \o "@p" \o ToString(r.page) \o "r" \o ToString(r.row)

\* The inner loop: one entry for each reference of the table whose ctid is
\* among the rows the lookup returned.
Entries(schema, table, rows) ==
    LET data_by_ctid ==
            {row \in TableRows(schema, table) :
                \E i \in 1..Len(rows) : row.ctid = CtidText(rows[i].page, rows[i].row)}
        found == SelectSeq(rows, LAMBDA r :
                    \E row \in data_by_ctid : row.ctid = CtidText(r.page, r.row))
    IN [i \in 1..Len(found) |->
            [reference |-> Reference(table, found[i]),
             data |-> RowData(CHOOSE row \in data_by_ctid :
                                 row.ctid = CtidText(found[i].page, found[i].row))]]

\* The outer loop over the tables; the lookup of a table that does not
\* resolve on the search path ends the call with UndefinedTable.
RECURSIVE FetchGroups(_, _, _, _)
FetchGroups(st, keys, matches, results) ==
    IF keys = <<>> THEN [ret |-> results, exc |-> None]
    ELSE LET table == Head(keys)
             rows == SelectSeq(matches, LAMBDA m : m.table = table)
         IN IF Resolve(st, table) = None THEN [ret |-> <<>>, exc |-> "UndefinedTable"]
            ELSE FetchGroups(st, Tail(keys), matches,
                             results \o Entries(Resolve(st, table), table, rows))

\* Variant: a reference whose row is not found ends the call with an error.
_fetch_related_data_strict(st, provenance, semiring) ==
    LET matches == decode_equation(provenance).ret
        r == FetchGroups(st, GroupKeys(matches), matches, <<>>)
    IN IF r.exc = None /\ Len(r.ret) < Len(matches)
       THEN [ret |-> <<>>, exc |-> "LookupError"]
       ELSE r

\* _fetch_related_data
_fetch_related_data(st, provenance, semiring) ==
    LET matches == decode_equation(provenance).ret
    IN FetchGroups(st, GroupKeys(matches), matches, <<>>)

(***************************************************************************)
(* ProvenanceRepository.query and ProvenanceService.compute_provenance     *)
(***************************************************************************)
\* Relations the rewritten query names: its tables and the mapping table
\* passed as a literal to the retrieval / aggregate function.
RelationsOf(edited, semiring) ==
    {find_all(edited, "Table")[i].name : i \in 1..Len(find_all(edited, "Table"))}
        \cup {semiring.mapping_table}

\* TableNotAnnotatedError(schema_name=..., semiring_name=...): its message.
TableNotAnnotatedError(semiring_name) ==
    "Table is not annotated with semiring '" \o semiring_name
        \o "'. Please annotate the table first."

\* The message query gives to ProvSqlInternalError, up to the error details.
ProvSqlInternalErrorMessage(semiring_name) ==
    "ProvSQL internal error occurred. The table may have lost its provenance annotations. "
        \o "Please re-annotate the table with the '" \o semiring_name
        \o "' semiring and try again."

\* Outcome of query: the state, the exception raised (with its message and
\* the database error attached as its cause), the rows returned, and the
\* transactions the call opened and closed on the connection.
QueryOutcome(st, exc, msg, cause, rows, log) ==
    [st |-> st, exc |-> exc, msg |-> msg, cause |-> cause, rows |-> rows, log |-> log]

Transaction(semiring, end) ==
    <<[event |-> "begin", semiring |-> semiring.name],
      [event |-> end, semiring |-> semiring.name]>>

\* Variant: the UndefinedTable error of the database is not translated.
query_untranslated(st, schema_name, ast, semiring, alias_counter, internal_error) ==
    LET edited == rewrite(ast, semiring, alias_counter)
        st1 == set_search_path(st, schema_name)
        retrieval_name ==
            IF semiring.aggregate_function # None /\ edited.path = "aggregate"
            THEN semiring.aggregate_function ELSE semiring.retrieval_function
        rows == [r \in 1..NumRows |-> [column |-> retrieval_name, semiring |-> semiring.name]]
    IN IF edited.exc # None
       THEN QueryOutcome(st, edited.exc, edited.msg, None, <<>>, <<>>)
       ELSE IF ~ st.provsql_installed
       THEN QueryOutcome(st, "UndefinedFunction", "", None, <<>>,
                         Transaction(semiring, "rollback"))
       ELSE IF \E n \in RelationsOf(edited.ast, semiring) : Resolve(st1, n) = None
       THEN QueryOutcome(st, "UndefinedTable", "", None, <<>>,
                         Transaction(semiring, "rollback"))
       ELSE IF internal_error
       THEN QueryOutcome(st, "ProvSqlInternalError",
                         ProvSqlInternalErrorMessage(semiring.name), "InternalError_",
                         <<>>, Transaction(semiring, "rollback"))
       ELSE QueryOutcome(st1, None, "", None, rows, Transaction(semiring, "commit"))

\* query: the rows of the result, each with the column that holds the token.
\* rewrite raises before the transaction is opened; the search path is set
\* inside the transaction, so a failed execution rolls it back as well.
\* internal_error: the native extension ends the execution with an internal
\* error.
query(st, schema_name, ast, semiring, alias_counter, internal_error) ==
    LET edited == rewrite(ast, semiring, alias_counter)
        st1 == set_search_path(st, schema_name)
        retrieval_name ==
            IF semiring.aggregate_function # None /\ edited.path = "aggregate"
            THEN semiring.aggregate_function ELSE semiring.retrieval_function
        rows == [r \in 1..NumRows |-> [column |-> retrieval_name, semiring |-> semiring.name]]
    IN IF edited.exc # None
       THEN QueryOutcome(st, edited.exc, edited.msg, None, <<>>, <<>>)
       ELSE IF ~ st.provsql_installed
       THEN QueryOutcome(st, "UndefinedFunction", "", None, <<>>,
                         Transaction(semiring, "rollback"))
       ELSE IF \E n \in RelationsOf(edited.ast, semiring) : Resolve(st1, n) = None
       THEN QueryOutcome(st, "TableNotAnnotatedError",
                         TableNotAnnotatedError(semiring.name), "UndefinedTable",
                         <<>>, Transaction(semiring, "rollback"))
       ELSE IF internal_error
       THEN QueryOutcome(st, "ProvSqlInternalError",
                         ProvSqlInternalErrorMessage(semiring.name), "InternalError_",
                         <<>>, Transaction(semiring, "rollback"))
       ELSE QueryOutcome(st1, None, "", None, rows, Transaction(semiring, "commit"))

\* What one query of compute_provenance draws from outside: the random
\* alias counter and the behaviour of the native extension.
Draws(internal_errors) ==
    [alias_counter : AliasCounters, internal_error : internal_errors]

NoResults == [results |-> <<>>, log |-> <<>>]

\* Variant: the queries are started together and awaited together, so that
\* their transactions overlap.
RECURSIVE compute_provenance_gathered(_, _, _, _, _, _)
compute_provenance_gathered(st, schema_name, ast, sems, draws, acc) ==
    IF sems = <<>>
    THEN [st |-> st, ret |-> TRUE, exc |-> None, msg |-> "", cause |-> None,
          results |-> acc.results,
          log |-> SelectSeq(acc.log, LAMBDA e : e.event = "begin")
                    \o SelectSeq(acc.log, LAMBDA e : e.event # "begin")]
    ELSE LET r == query(st, schema_name, ast, Head(sems), Head(draws).alias_counter,
                        Head(draws).internal_error)
         IN IF r.exc # None
            THEN [st |-> r.st, ret |-> FALSE, exc |-> r.exc, msg |-> r.msg,
                  cause |-> r.cause, results |-> <<>>, log |-> acc.log \o r.log]
            ELSE compute_provenance_gathered(r.st, schema_name, ast, Tail(sems), Tail(draws),
                    [results |-> Append(acc.results, r.rows), log |-> acc.log \o r.log])

\* compute_provenance: for semiring in semirings: results.append(query(...))
RECURSIVE compute_provenance(_, _, _, _, _, _)
compute_provenance(st, schema_name, ast, sems, draws, acc) ==
    IF sems = <<>>
    THEN [st |-> st, ret |-> TRUE, exc |-> None, msg |-> "", cause |-> None,
          results |-> acc.results, log |-> acc.log]
    ELSE LET r == query(st, schema_name, ast, Head(sems), Head(draws).alias_counter,
                        Head(draws).internal_error)
         IN IF r.exc # None
            THEN [st |-> r.st, ret |-> FALSE, exc |-> r.exc, msg |-> r.msg,
                  cause |-> r.cause, results |-> <<>>, log |-> acc.log \o r.log]
            ELSE compute_provenance(r.st, schema_name, ast, Tail(sems), Tail(draws),
                    [results |-> Append(acc.results, r.rows), log |-> acc.log \o r.log])

(***************************************************************************)
(* ProvenanceService                                                       *)
(***************************************************************************)
\* for semiring in semirings: semiring_newly_enabled |= add_semiring(...)
RECURSIVE AddAll(_, _, _, _, _)
AddAll(st, schema_name, table_name, sems, acc) ==
    IF sems = <<>> THEN Outcome(st, acc, None)
    ELSE LET r == add_semiring(st, schema_name, table_name, Head(sems))
         IN IF r.exc # None THEN Outcome(r.st, FALSE, r.exc)
            ELSE AddAll(r.st, schema_name, table_name, Tail(sems), acc \/ r.ret)

\* Variant: the two flags are combined with "and".
annotate_dataset_and(st, table_name, schema_name, sems) ==
    LET e == enable_provenance(st, schema_name, table_name)
        a == AddAll(e.st, schema_name, table_name, sems, FALSE)
    IN IF e.exc # None THEN e
       ELSE IF a.exc # None THEN a
       ELSE Outcome(a.st, e.ret /\ a.ret, None)

\* annotate_dataset
annotate_dataset(st, table_name, schema_name, sems) ==
    LET e == enable_provenance(st, schema_name, table_name)
        a == AddAll(e.st, schema_name, table_name, sems, FALSE)
    IN IF e.exc # None THEN e
       ELSE IF a.exc # None THEN a
       ELSE Outcome(a.st, e.ret \/ a.ret, None)

\* Variant: once the semirings are removed, the provenance column is
\* removed as well.
RECURSIVE remove_annotation_and_column(_, _, _, _)
remove_annotation_and_column(st, table_name, schema_name, sems) ==
    IF sems = <<>>
    THEN Outcome(remove_provenance(st, schema_name, table_name).st, FALSE, None)
    ELSE LET r == remove_semiring(st, schema_name, table_name, Head(sems))
             rest == remove_annotation_and_column(r.st, table_name, schema_name, Tail(sems))
         IN IF r.exc # None THEN r
            ELSE IF rest.exc # None THEN rest
            ELSE Outcome(rest.st, r.ret \/ rest.ret, None)

\* remove_annotation
RECURSIVE remove_annotation(_, _, _, _)
remove_annotation(st, table_name, schema_name, sems) ==
    IF sems = <<>> THEN Outcome(st, FALSE, None)
    ELSE LET r == remove_semiring(st, schema_name, table_name, Head(sems))
             rest == remove_annotation(r.st, table_name, schema_name, Tail(sems))
         IN IF r.exc # None THEN r
            ELSE IF rest.exc # None THEN rest
            ELSE Outcome(rest.st, r.ret \/ rest.ret, None)

(***************************************************************************)
(* State machine                                                           *)
(***************************************************************************)
Names(sems) == [i \in 1..Len(sems) |-> sems[i].name]

\* The table exists and has neither the provsql column nor a mapping table
\* of any of the listed semirings.
Unannotated(st, schema_name, table_name, sems) ==
    /\ <<schema_name, table_name>> \in BaseTables
    /\ <<schema_name, table_name>> \notin st.provsql
    /\ \A i \in 1..Len(sems) :
          get_provenance_table_name_for(sems[i], table_name)
              \notin pg_tables(st, schema_name)

NoCall ==
    [op |-> "none", schema |-> "", table |-> "", semirings |-> <<>>,
     ret |-> FALSE, exc |-> None, msg |-> "", results |-> <<>>,
     cause |-> None, log |-> <<>>, internal_errors |-> <<>>,
     fresh |-> FALSE, chain |-> FALSE]

\* Record of a call: what was called, what it returned or raised, whether
\* its table was un-annotated before it (fresh), and whether it directly
\* follows a completed annotate_dataset with the same arguments that
\* itself started from an un-annotated table (chain).
Call(op, schema_name, table_name, sems, r) ==
    [op |-> op, schema |-> schema_name, table |-> table_name,
     semirings |-> Names(sems), ret |-> r.ret, exc |-> r.exc,
     msg |-> IF "msg" \in DOMAIN r THEN r.msg ELSE "",
     results |-> IF "results" \in DOMAIN r THEN r.results ELSE <<>>,
     cause |-> IF "cause" \in DOMAIN r THEN r.cause ELSE None,
     log |-> IF "log" \in DOMAIN r THEN r.log ELSE <<>>,
     internal_errors |-> <<>>,
     fresh |-> Unannotated(Cur, schema_name, table_name, sems),
     chain |-> /\ last.op = "annotate_dataset"
               /\ last.schema = schema_name
               /\ last.table = table_name
               /\ last.semirings = Names(sems)
               /\ last.exc = None
               /\ last.fresh]

Apply(r, call) ==
    /\ tables' = r.st.tables
    /\ provsql' = r.st.provsql
    /\ search_path' = r.st.search_path
    /\ tmp_provsql' = r.st.tmp_provsql
    /\ last' = call
    /\ UNCHANGED <<provsql_installed, rw, dec, conns>>

NoRewrite ==
    [query |-> NullNode, semiring |-> "", alias_counter |-> 0, called |-> FALSE,
     out |-> Raised(None, "", "none")]

Init ==
    /\ tables = [k \in {} |-> {}]
    /\ provsql = {}
    /\ search_path = <<"public">>
    /\ tmp_provsql \in BOOLEAN
    /\ provsql_installed \in BOOLEAN
    /\ last = NoCall
    /\ rw = NoRewrite
    /\ dec = NoDecode
    /\ conns = NoConns

EnableProvenance ==
    \E schema_name \in SchemaNames, table_name \in TableNames :
        LET r == enable_provenance(Cur, schema_name, table_name)
        IN Apply(r, Call("enable_provenance", schema_name, table_name, <<>>, r))

AddSemiring ==
    \E schema_name \in SchemaNames, table_name \in TableNames, s \in Semirings :
        LET r == add_semiring(Cur, schema_name, table_name, s)
        IN Apply(r, Call("add_semiring", schema_name, table_name, <<s>>, r))

RemoveSemiring ==
    \E schema_name \in SchemaNames, table_name \in TableNames, s \in Semirings :
        LET r == remove_semiring(Cur, schema_name, table_name, s)
        IN Apply(r, Call("remove_semiring", schema_name, table_name, <<s>>, r))

RemoveProvenance ==
    \E schema_name \in SchemaNames, table_name \in TableNames :
        LET r == remove_provenance(Cur, schema_name, table_name)
        IN Apply(r, Call("remove_provenance", schema_name, table_name, <<>>, r))

RebuildUnionMapping ==
    \E schema_name \in SchemaNames, s \in Semirings :
        LET r == _rebuild_union_mapping(Cur, schema_name, s)
        IN Apply(r, Call("_rebuild_union_mapping", schema_name, "", <<s>>, r))

AnnotateDataset ==
    \E schema_name \in SchemaNames, table_name \in TableNames, sems \in SemiringLists :
        LET r == annotate_dataset(Cur, table_name, schema_name, sems)
        IN Apply(r, Call("annotate_dataset", schema_name, table_name, sems, r))

RemoveAnnotation ==
    \E schema_name \in SchemaNames, table_name \in TableNames, sems \in SemiringLists :
        LET r == remove_annotation(Cur, table_name, schema_name, sems)
        IN Apply(r, Call("remove_annotation", schema_name, table_name, sems, r))

\* compute_provenance on one of the given queries, the native extension
\* behaving in one of the given ways.
ComputeProvenanceOn(queries, internal_errors) ==
    \E schema_name \in SchemaNames, ast \in queries, sems \in SemiringLists :
        \E draws \in [1..Len(sems) -> Draws(internal_errors)] :
            LET r == compute_provenance(Cur, schema_name, ast, sems, draws, NoResults)
            IN Apply(r, [Call("compute_provenance", schema_name, "", sems, r)
                            EXCEPT !.internal_errors =
                                [i \in 1..Len(sems) |-> draws[i].internal_error]])

Next ==
    \/ EnableProvenance
    \/ AddSemiring
    \/ RemoveSemiring
    \/ RemoveProvenance
    \/ RebuildUnionMapping
    \/ AnnotateDataset
    \/ RemoveAnnotation

Spec == Init /\ [][Next]_vars

(***************************************************************************)
(* The rewriter on its own: one query, drawn at the start, is rewritten    *)
(* directly or through compute_provenance.                                 *)
(***************************************************************************)
EmptyDb ==
    [tables |-> [k \in {} |-> {}], provsql |-> {},
     search_path |-> <<"public">>, tmp_provsql |-> FALSE,
     provsql_installed |-> TRUE]

\* The database after annotate_dataset of both tables of s1 with every
\* configured semiring.
InitDbs ==
    {annotate_dataset(annotate_dataset(EmptyDb, "t1", "s1", semirings).st,
                      "t2", "s1", semirings).st}

InitRewrite ==
    /\ \E st \in InitDbs :
          /\ tables = st.tables
          /\ provsql = st.provsql
          /\ search_path = st.search_path
          /\ tmp_provsql = st.tmp_provsql
          /\ provsql_installed = st.provsql_installed
    /\ last = NoCall
    /\ \E q \in Queries : rw = [NoRewrite EXCEPT !.query = q]
    /\ dec = NoDecode
    /\ conns = NoConns

RewriteQuery ==
    /\ ~ rw.called
    /\ last.op = "none"
    /\ \E s \in Semirings, alias_counter \in AliasCounters :
          rw' = [query |-> rw.query, semiring |-> s.name,
                 alias_counter |-> alias_counter, called |-> TRUE,
                 out |-> rewrite(rw.query, s, alias_counter)]
    /\ UNCHANGED <<tables, provsql, search_path, tmp_provsql, provsql_installed, last, dec, conns>>

ComputeProvenanceOfQuery ==
    /\ ~ rw.called
    /\ last.op = "none"
    /\ ComputeProvenanceOn({rw.query}, {FALSE})

NextRewrite ==
    \/ RewriteQuery
    \/ ComputeProvenanceOfQuery

SpecRewrite == InitRewrite /\ [][NextRewrite]_vars

(***************************************************************************)
(* Queries against databases in several states of annotation: one query,   *)
(* drawn at the start, is run through query or compute_provenance.         *)
(***************************************************************************)
\* Nothing annotated; t1 annotated for formula only; t1 annotated for both
\* semirings and t2 not; both tables annotated for both semirings.
QueryDbs ==
    {EmptyDb,
     annotate_dataset(EmptyDb, "t1", "s1", <<Formula>>).st,
     annotate_dataset(EmptyDb, "t1", "s1", semirings).st}
        \cup InitDbs

SampleQueries == {q \in SelectQueries : Len(q.expressions) = 1}

InitQuery ==
    /\ \E st \in QueryDbs :
          /\ tables = st.tables
          /\ provsql = st.provsql
          /\ search_path = st.search_path
          /\ tmp_provsql = st.tmp_provsql
          /\ provsql_installed = st.provsql_installed
    /\ last = NoCall
    /\ \E q \in SampleQueries : rw = [NoRewrite EXCEPT !.query = q]
    /\ dec = NoDecode
    /\ conns = NoConns

Query ==
    /\ last.op = "none"
    /\ \E schema_name \in SchemaNames, s \in Semirings, d \in Draws(BOOLEAN) :
          LET q == query(Cur, schema_name, rw.query, s, d.alias_counter, d.internal_error)
              r == [st |-> q.st, ret |-> q.exc = None, exc |-> q.exc, msg |-> q.msg,
                    cause |-> q.cause, results |-> q.rows, log |-> q.log]
          IN Apply(r, [Call("query", schema_name, "", <<s>>, r)
                          EXCEPT !.internal_errors = <<d.internal_error>>])

ComputeProvenance ==
    /\ last.op = "none"
    /\ ComputeProvenanceOn({rw.query}, BOOLEAN)

NextQuery ==
    \/ Query
    \/ ComputeProvenance

SpecQuery == InitQuery /\ [][NextQuery]_vars

(***************************************************************************)
(* Alias generation on its own: grouped and ungrouped SELECTs whose        *)
(* projections already use names of the form agg_result_<n>.               *)
(***************************************************************************)
\* col1 | agg_result_1000 | COUNT(*) | SUM(col2) | MAX(col2) AS agg_result_1001
\* | SUM(col2) AS total
AliasExprs ==
    {Column("col1", ""),
     Column("agg_result_" \o ToString(RandLo), ""),
     AggFunc("COUNT", Node("Star", "*", "", <<>>, <<>>)),
     AggFunc("SUM", Column("col2", "")),
     alias_(AggFunc("MAX", Column("col2", "")), "agg_result_" \o ToString(RandLo + 1)),
     alias_(AggFunc("SUM", Column("col2", "")), "total")}

AliasQueries ==
    {Select(p, Clauses(<<From(Table("t1"))>>, g, FALSE)) :
        p \in UNION {SeqsOfLen(AliasExprs, n) : n \in 1..MaxProj}, g \in BOOLEAN}

InitAlias ==
    /\ tables = EmptyDb.tables
    /\ provsql = EmptyDb.provsql
    /\ search_path = EmptyDb.search_path
    /\ tmp_provsql = EmptyDb.tmp_provsql
    /\ provsql_installed = EmptyDb.provsql_installed
    /\ last = NoCall
    /\ \E q \in AliasQueries : rw = [NoRewrite EXCEPT !.query = q]
    /\ dec = NoDecode
    /\ conns = NoConns

RewriteAliasQuery ==
    /\ ~ rw.called
    /\ \E s \in Semirings, alias_counter \in AliasCounters :
          rw' = [query |-> rw.query, semiring |-> s.name,
                 alias_counter |-> alias_counter, called |-> TRUE,
                 out |-> rewrite(rw.query, s, alias_counter)]
    /\ UNCHANGED <<tables, provsql, search_path, tmp_provsql, provsql_installed, last, dec, conns>>

NextAlias == RewriteAliasQuery

SpecAlias == InitAlias /\ [][NextAlias]_vars

(***************************************************************************)
(* The mapping strategy on its own: one provenance string, drawn at the    *)
(* start, is decoded.                                                      *)
(***************************************************************************)
InitDecode ==
    /\ tables = EmptyDb.tables
    /\ provsql = EmptyDb.provsql
    /\ search_path = EmptyDb.search_path
    /\ tmp_provsql = EmptyDb.tmp_provsql
    /\ provsql_installed = EmptyDb.provsql_installed
    /\ last = NoCall
    /\ rw = NoRewrite
    /\ \E frs \in FragmentLists(MaxGroups) :
          dec = [NoDecode EXCEPT !.fragments = frs, !.values = Join(frs)]
    /\ conns = NoConns

DecodeEquation ==
    /\ ~ dec.called
    /\ dec' = [dec EXCEPT !.called = TRUE, !.out = decode_equation(dec.values)]
    /\ UNCHANGED <<tables, provsql, search_path, tmp_provsql, provsql_installed, last, rw, conns>>

NextDecode == DecodeEquation

SpecDecode == InitDecode /\ [][NextDecode]_vars

(***************************************************************************)
(* The resolution of references on its own: one provenance string, drawn   *)
(* at the start, is resolved against the base tables.                      *)
(***************************************************************************)
\* Tokens of rows that are in t1 and t2, of rows that are not (a row and a
\* page beyond the table), of a table that is not in the database, a
\* fragment without '@' and a separator.
FetchFragments ==
    {Fragment("token", "{" \o encode("t1", 0, 1) \o "}", "t1", 0, 1),
     Fragment("token", "{" \o encode("t1", 0, MaxRow) \o "}", "t1", 0, MaxRow),
     Fragment("token", "{" \o encode("t1", MaxPage, 1) \o "}", "t1", MaxPage, 1),
     Fragment("token", "{" \o encode("t2", 0, 1) \o "}", "t2", 0, 1),
     Fragment("token", "{" \o encode("p1r2", 0, 1) \o "}", "p1r2", 0, 1),
     Fragment("malformed", "{t1p0r1}", "", 0, 0),
     Fragment("separator", ",", "", 0, 0)}

InitFetch ==
    /\ tables = EmptyDb.tables
    /\ provsql = EmptyDb.provsql
    /\ search_path = EmptyDb.search_path
    /\ tmp_provsql = EmptyDb.tmp_provsql
    /\ provsql_installed = EmptyDb.provsql_installed
    /\ last = NoCall
    /\ rw = NoRewrite
    /\ \E frs \in UNION {SeqsOfLen(FetchFragments, n) : n \in 0..MaxGroups} :
          dec = [NoDecode EXCEPT !.fragments = frs, !.values = Join(frs)]
    /\ conns = NoConns

\* _fetch_related_data on the provenance string, as query calls it: inside
\* its transaction, after _set_search_path(schema_name).
FetchRelatedData ==
    /\ last.op = "none"
    /\ \E schema_name \in SchemaNames, s \in Semirings :
          LET st == set_search_path(Cur, schema_name)
              f == _fetch_related_data(st, dec.values, s)
              r == [st |-> IF f.exc = None THEN st ELSE Cur, ret |-> f.exc = None,
                    exc |-> f.exc, results |-> f.ret]
          IN Apply(r, Call("_fetch_related_data", schema_name, "", <<s>>, r))

NextFetch == FetchRelatedData

SpecFetch == InitFetch /\ [][NextFetch]_vars

(***************************************************************************)
(* The repository statement by statement: what each SQL statement of a     *)
(* method does to the database as its connection sees it.                  *)
(***************************************************************************)
\* Changes of an open transaction that are not committed yet: tables
\* created or replaced (put) and dropped (del), provsql columns added and
\* removed.
NoWork == [put |-> [k \in {} |-> {}], del |-> {}, padd |-> {}, pdel |-> {}]

\* The database as connection c sees it, in the form the repository
\* operators above take: the committed tables and provsql columns with the
\* changes of its own open transaction, and its session settings.
View(c) ==
    [tables |-> [k \in (DOMAIN tables \ conns[c].work.del) \cup DOMAIN conns[c].work.put |->
                    IF k \in DOMAIN conns[c].work.put
                    THEN conns[c].work.put[k] ELSE tables[k]],
     provsql |-> (provsql \ conns[c].work.pdel) \cup conns[c].work.padd,
     search_path |-> conns[c].search_path,
     tmp_provsql |-> conns[c].tmp_provsql,
     provsql_installed |-> provsql_installed]

\* The uncommitted changes that lead from the committed database to st.
WorkOf(st) ==
    [put |-> [k \in {j \in DOMAIN st.tables :
                        j \notin DOMAIN tables \/ tables[j] # st.tables[j]} |->
                 st.tables[k]],
     del |-> DOMAIN tables \ DOMAIN st.tables,
     padd |-> st.provsql \ provsql,
     pdel |-> provsql \ st.provsql]

\* The canary table of ensure_semiring_setup and the script it guards.
CanaryTable == <<"public", "provsql_canary">>
script_name == "03_setup_semiring_parallel.sql"

\* The version the setup script records in the canary.
ScriptVersion == "1.0.0"

\* Statements. unq: the statement names a relation without its schema.
Stmt(kind, schema, name, table, unq) ==
    [kind |-> kind, schema |-> schema, name |-> name, table |-> table, unq |-> unq]

SqlSetSearchPath(schema_name) == Stmt("set_search_path", schema_name, "", "", FALSE)
SqlCreateExtension == Stmt("create_extension", "", "", "", FALSE)
SqlAddProvenance(table_name) == Stmt("add_provenance", "", "", table_name, TRUE)
SqlRemoveProvenance(table_name) == Stmt("remove_provenance", "", "", table_name, TRUE)
SqlDropTmpProvsql == Stmt("drop_tmp_provsql", "", "tmp_provsql", "", TRUE)
SqlCreateProvenanceMapping(prov_table, table_name) ==
    Stmt("create_provenance_mapping", "", prov_table, table_name, TRUE)
SqlSelectExists(schema_name, prov_table) == Stmt("select_exists", schema_name, prov_table, "", TRUE)
SqlDropTableCascade(prov_table) == Stmt("drop_table", "", prov_table, "", TRUE)
SqlSelectTablenames(schema_name, suffix) == Stmt("select_tablenames", schema_name, suffix, "", FALSE)
SqlDropUnion(schema_name, name) == Stmt("drop_union", schema_name, name, "", FALSE)
SqlCreateUnion(schema_name, name) == Stmt("create_union", schema_name, name, "", FALSE)
SqlAlterValue(schema_name, name) == Stmt("alter_value", schema_name, name, "", FALSE)
SqlUpdateValue(schema_name, name) == Stmt("update_value", schema_name, name, "", FALSE)
SqlAddPrimaryKey(schema_name, name) == Stmt("add_primary_key", schema_name, name, "", FALSE)
SqlSelectEdited(mapping_table, table_name) == Stmt("select_edited", "", mapping_table, table_name, TRUE)
SqlSelectByCtid(table_name) == Stmt("select_by_ctid", "", "", table_name, TRUE)
SqlSelectCanary(required_version) == Stmt("select_canary", "public", required_version, "", FALSE)
SqlExecuteScript == Stmt("execute_script", "", script_name, "", FALSE)

\* What the method keeps in local variables between statements: its boolean
\* (newly_annotated, semiring_created, table_existed, needs_execution), the
\* tables the catalog lookup of the rebuild returned, and the values the
\* methods of the request have returned so far.
NoLocals == [flag |-> TRUE, found |-> {}, rets |-> <<>>]

Done(st, loc) == [st |-> st, err |-> None, loc |-> loc]
Ended(st, loc, err) == [st |-> st, err |-> err, loc |-> loc]

\* The setup script, which is no part of the sources: it leaves the canary
\* row of its name at its version, whether or not it ran before.
setup_script(st) ==
    [st EXCEPT !.tables =
        PutTable(@, CanaryTable,
                 {[script_name |-> script_name, version |-> ScriptVersion]})]

\* The effect of a statement on the database st the connection sees: the
\* database after it, the database error it ends with, the locals after it.
Effect(stmt, st, loc) ==
    LET key == <<stmt.schema, stmt.name>>
    IN CASE stmt.kind = "set_search_path" ->
              Done(set_search_path(st, stmt.schema), loc)
         [] stmt.kind = "create_extension" ->
              Ended(st, loc, create_extension(st).err)
         [] stmt.kind = "add_provenance" ->
              LET r == add_provenance(st, stmt.table) IN Ended(r.st, loc, r.err)
         [] stmt.kind = "remove_provenance" ->
              LET r == native_remove_provenance(st, stmt.table) IN Ended(r.st, loc, r.err)
         [] stmt.kind = "drop_tmp_provsql" ->
              Done([st EXCEPT !.tmp_provsql = FALSE], loc)
         [] stmt.kind = "create_provenance_mapping" ->
              LET r == create_provenance_mapping(st, stmt.name, stmt.table)
              IN Ended(r.st, loc, r.err)
         [] stmt.kind = "select_exists" ->
              Done(st, [loc EXCEPT !.flag = stmt.name \in pg_tables(st, stmt.schema)])
         [] stmt.kind = "drop_table" ->
              IF Resolve(st, stmt.name) = None THEN Ended(st, loc, "UndefinedTable")
              ELSE Done([st EXCEPT !.tables =
                            DropTable(@, <<Resolve(st, stmt.name), stmt.name>>)], loc)
         [] stmt.kind = "select_tablenames" ->
              Done(st, [loc EXCEPT !.found =
                          {n \in pg_tables(st, stmt.schema) : Like(n, stmt.name)}])
         [] stmt.kind = "drop_union" ->
              Done([st EXCEPT !.tables = DropTable(@, key)], loc)
         [] stmt.kind = "create_union" ->
              IF \E n \in loc.found : n \notin pg_tables(st, stmt.schema)
              THEN Ended(st, loc, "UndefinedTable")
              ELSE IF key \in DOMAIN st.tables THEN Ended(st, loc, "DuplicateTable")
              ELSE Done([st EXCEPT !.tables =
                            PutTable(@, key, UnionRows(st, stmt.schema, loc.found))], loc)
         [] stmt.kind = "alter_value" ->
              IF key \notin DOMAIN st.tables THEN Ended(st, loc, "UndefinedTable")
              ELSE Done(st, loc)
         [] stmt.kind = "update_value" ->
              IF key \notin DOMAIN st.tables THEN Ended(st, loc, "UndefinedTable")
              ELSE Done([st EXCEPT !.tables[key] = {Reformat(r) : r \in @}], loc)
         [] stmt.kind = "add_primary_key" ->
              IF key \notin DOMAIN st.tables THEN Ended(st, loc, "UndefinedTable")
              ELSE IF ~ PrimaryKeyOk(st.tables[key]) THEN Ended(st, loc, "UniqueViolation")
              ELSE Done(st, loc)
         [] stmt.kind = "select_edited" ->
              IF ~ st.provsql_installed THEN Ended(st, loc, "UndefinedFunction")
              ELSE IF \E n \in {stmt.name, stmt.table} : Resolve(st, n) = None
              THEN Ended(st, loc, "UndefinedTable")
              ELSE Done(st, loc)
         [] stmt.kind = "select_by_ctid" ->
              IF Resolve(st, stmt.table) = None THEN Ended(st, loc, "UndefinedTable")
              ELSE Done(st, loc)
         [] stmt.kind = "select_canary" ->
              IF CanaryTable \notin DOMAIN st.tables THEN Ended(st, loc, "UndefinedTable")
              ELSE Done(st, [loc EXCEPT !.flag =
                                \A row \in st.tables[CanaryTable] :
                                   row.script_name = script_name => row.version # stmt.name])
         [] stmt.kind = "execute_script" ->
              Done(setup_script(st), loc)

\* The tables a statement locks or reads under a lock.
Touched(stmt, st, loc) ==
    CASE stmt.kind \in {"add_provenance", "remove_provenance"} ->
            IF Resolve(st, stmt.table) = None THEN {}
            ELSE {<<Resolve(st, stmt.table), stmt.table>>}
      [] stmt.kind = "create_provenance_mapping" -> {<<CreationSchema(st), stmt.name>>}
      [] stmt.kind = "drop_table" ->
            IF Resolve(st, stmt.name) = None THEN {}
            ELSE {<<Resolve(st, stmt.name), stmt.name>>}
      [] stmt.kind \in {"drop_union", "alter_value", "update_value", "add_primary_key"} ->
            {<<stmt.schema, stmt.name>>}
      [] stmt.kind = "create_union" ->
            {<<stmt.schema, stmt.name>>} \cup {<<stmt.schema, n>> : n \in loc.found}
      [] stmt.kind = "execute_script" -> {CanaryTable}
      [] OTHER -> {}

(***************************************************************************)
(* The methods as sequences of steps: statements, the transaction blocks   *)
(* around them and the except clauses that apply to them.                  *)
(***************************************************************************)
\* An except clause: the database errors it catches ("*" for Exception)
\* and what it does: raise another exception, leave the transaction block
\* and go on behind it with the method's boolean set to flag, or pass and
\* go on inside the block.
Handler(errs, do, exc, flag) == [errs |-> errs, do |-> do, exc |-> exc, flag |-> flag]

NoHandlers == <<>>

Ins(op, stmt, on, n, value) == [op |-> op, stmt |-> stmt, on |-> on, n |-> n, value |-> value]

NoStmt == Stmt("", "", "", "", FALSE)

Execute(stmt, on) == Ins("execute", stmt, on, 0, FALSE)
Begin == Ins("begin", NoStmt, NoHandlers, 0, FALSE)
Commit == Ins("commit", NoStmt, NoHandlers, 0, FALSE)
SetFlag(value) == Ins("set_flag", NoStmt, NoHandlers, 0, value)
SkipUnlessFlag(n) == Ins("skip_unless_flag", NoStmt, NoHandlers, n, FALSE)
SkipIfNoneFound(n) == Ins("skip_if_none_found", NoStmt, NoHandlers, n, FALSE)
Return == Ins("return", NoStmt, NoHandlers, 0, FALSE)
ReturnNone == Ins("return_none", NoStmt, NoHandlers, 0, FALSE)
RaiseBeforeSql(exc) ==
    Ins("raise", NoStmt, <<Handler({"*"}, "raise", exc, FALSE)>>, 0, FALSE)

\* _rebuild_union_mapping: in the transaction of its caller.
_rebuild_union_mapping_steps(schema_name, semiring) ==
    <<Execute(SqlSetSearchPath(schema_name), NoHandlers),
      Execute(SqlSelectTablenames(schema_name, table_suffix(semiring)), NoHandlers),
      SkipIfNoneFound(5),
      Execute(SqlDropUnion(schema_name, union_table_name(semiring)), NoHandlers),
      Execute(SqlCreateUnion(schema_name, union_table_name(semiring)), NoHandlers),
      Execute(SqlAlterValue(schema_name, union_table_name(semiring)), NoHandlers),
      Execute(SqlUpdateValue(schema_name, union_table_name(semiring)), NoHandlers),
      Execute(SqlAddPrimaryKey(schema_name, union_table_name(semiring)), NoHandlers)>>

\* The except clauses of enable_provenance.
enable_provenance_handlers ==
    <<Handler({"UndefinedFile", "FeatureNotSupported"}, "raise", "ProvSqlMissingError", FALSE),
      Handler({"UndefinedTable"}, "raise", "TableOrSchemaNotFoundError", FALSE),
      Handler({"DuplicateColumn"}, "resume", "", FALSE)>>

\* enable_provenance
enable_provenance_steps(schema_name, table_name) ==
    <<Execute(SqlSetSearchPath(schema_name), NoHandlers),
      SetFlag(TRUE),
      Begin,
      Execute(SqlCreateExtension, enable_provenance_handlers),
      Execute(SqlAddProvenance(table_name), enable_provenance_handlers),
      Commit,
      Return>>

\* Variant of add_semiring that rebuilds the union table outside a
\* transaction, each statement committed on its own.
add_semiring_steps_rebuild_autocommit(schema_name, table_name, semiring) ==
    <<Execute(SqlSetSearchPath(schema_name), NoHandlers),
      Begin,
      Execute(SqlDropTmpProvsql, <<Handler({"*"}, "pass", "", FALSE)>>),
      Commit,
      SetFlag(TRUE),
      Begin,
      Execute(SqlCreateProvenanceMapping(
                  get_provenance_table_name_for(semiring, table_name), table_name),
              <<Handler({"DuplicateTable"}, "resume", "", FALSE)>>),
      Commit>>
        \o _rebuild_union_mapping_steps(schema_name, semiring)
        \o <<Return>>

\* add_semiring
add_semiring_steps(schema_name, table_name, semiring) ==
    <<Execute(SqlSetSearchPath(schema_name), NoHandlers),
      Begin,
      Execute(SqlDropTmpProvsql, <<Handler({"*"}, "pass", "", FALSE)>>),
      Commit,
      SetFlag(TRUE),
      Begin,
      Execute(SqlCreateProvenanceMapping(
                  get_provenance_table_name_for(semiring, table_name), table_name),
              <<Handler({"DuplicateTable"}, "resume", "", FALSE)>>),
      Commit,
      Begin>>
        \o _rebuild_union_mapping_steps(schema_name, semiring)
        \o <<Commit, Return>>

\* remove_semiring
remove_semiring_steps(schema_name, table_name, semiring) ==
    <<Execute(SqlSetSearchPath(schema_name), NoHandlers),
      Begin,
      Execute(SqlSelectExists(schema_name,
                              get_provenance_table_name_for(semiring, table_name)),
              NoHandlers),
      Commit,
      SkipUnlessFlag(5 + Len(_rebuild_union_mapping_steps(schema_name, semiring))),
      Begin,
      Execute(SqlDropTableCascade(get_provenance_table_name_for(semiring, table_name)),
              NoHandlers),
      Commit,
      Begin>>
        \o _rebuild_union_mapping_steps(schema_name, semiring)
        \o <<Commit, Return>>

\* Variant of remove_provenance that leaves the search path as it is.
remove_provenance_steps_keep_path(schema_name, table_name) ==
    <<Begin,
      Execute(SqlRemoveProvenance(table_name),
              <<Handler({"UndefinedColumn"}, "resume", "", TRUE)>>),
      Commit,
      ReturnNone>>

\* remove_provenance
remove_provenance_steps(schema_name, table_name) ==
    <<Execute(SqlSetSearchPath(schema_name), NoHandlers),
      Begin,
      Execute(SqlRemoveProvenance(table_name),
              <<Handler({"UndefinedColumn"}, "resume", "", TRUE)>>),
      Commit,
      ReturnNone>>

\* The except clauses of query.
query_handlers ==
    <<Handler({"UndefinedTable"}, "raise", "TableNotAnnotatedError", FALSE),
      Handler({"InternalError_"}, "raise", "ProvSqlInternalError", FALSE)>>

\* query: rewrite, then in one transaction the search path, the edited
\* query and, for each of its rows, the lookup of _fetch_related_data in
\* the table the row's token names.
query_steps(schema_name, ast, semiring, alias_counter) ==
    LET edited == rewrite(ast, semiring, alias_counter)
        table_name == find(edited.ast, "Table").name
    IN IF edited.exc # None THEN <<RaiseBeforeSql(edited.exc)>>
       ELSE <<Begin,
              Execute(SqlSetSearchPath(schema_name), query_handlers),
              Execute(SqlSelectEdited(semiring.mapping_table, table_name), query_handlers)>>
            \o [r \in 1..NumRows |-> Execute(SqlSelectByCtid(table_name), query_handlers)]
            \o <<Commit, ReturnNone>>

\* ensure_semiring_setup and _execute_semiring_setup_script
ensure_semiring_setup_steps(required_version) ==
    <<SetFlag(FALSE),
      Begin,
      Execute(SqlSelectCanary(required_version),
              <<Handler({"UndefinedTable"}, "resume", "", TRUE)>>),
      Commit,
      SkipUnlessFlag(3),
      Begin,
      Execute(SqlExecuteScript, NoHandlers),
      Commit,
      ReturnNone>>

RECURSIVE Concat(_)
Concat(seqs) == IF seqs = <<>> THEN <<>> ELSE Head(seqs) \o Concat(Tail(seqs))

\* Variant of annotate_dataset that goes on with the next step when a
\* statement has failed.
annotate_dataset_steps_lenient(table_name, schema_name, sems) ==
    LET steps == enable_provenance_steps(schema_name, table_name)
                    \o Concat([i \in 1..Len(sems) |->
                                  add_semiring_steps(schema_name, table_name, sems[i])])
    IN [i \in DOMAIN steps |->
           IF steps[i].op = "execute"
           THEN [steps[i] EXCEPT !.on = @ \o <<Handler({"*"}, "resume", "", FALSE)>>]
           ELSE steps[i]]

\* annotate_dataset: enable_provenance, then add_semiring for each semiring.
annotate_dataset_steps(table_name, schema_name, sems) ==
    enable_provenance_steps(schema_name, table_name)
        \o Concat([i \in 1..Len(sems) |-> add_semiring_steps(schema_name, table_name, sems[i])])

\* remove_annotation: remove_semiring for each semiring.
remove_annotation_steps(table_name, schema_name, sems) ==
    Concat([i \in 1..Len(sems) |-> remove_semiring_steps(schema_name, table_name, sems[i])])

\* compute_provenance: query for each semiring.
compute_provenance_steps(schema_name, ast, sems, alias_counter) ==
    Concat([i \in 1..Len(sems) |-> query_steps(schema_name, ast, sems[i], alias_counter)])

\* A request: the method called and its arguments.
Request(op, schema_name, table_name, sems, ast, version) ==
    [op |-> op, schema |-> schema_name, table |-> table_name, semirings |-> sems,
     query |-> ast, version |-> version, alias_counter |-> RandLo]

NoRequest == Request("none", "", "", <<>>, NullNode, "")

StepsOf(req) ==
    CASE req.op = "enable_provenance" -> enable_provenance_steps(req.schema, req.table)
      [] req.op = "add_semiring" -> add_semiring_steps(req.schema, req.table, req.semirings[1])
      [] req.op = "remove_semiring" ->
            remove_semiring_steps(req.schema, req.table, req.semirings[1])
      [] req.op = "remove_provenance" -> remove_provenance_steps(req.schema, req.table)
      [] req.op = "query" ->
            query_steps(req.schema, req.query, req.semirings[1], req.alias_counter)
      [] req.op = "ensure_semiring_setup" -> ensure_semiring_setup_steps(req.version)
      [] req.op = "annotate_dataset" ->
            annotate_dataset_steps(req.table, req.schema, req.semirings)
      [] req.op = "remove_annotation" ->
            remove_annotation_steps(req.table, req.schema, req.semirings)
      [] req.op = "compute_provenance" ->
            compute_provenance_steps(req.schema, req.query, req.semirings, req.alias_counter)
      [] OTHER -> <<>>

(***************************************************************************)
(* A connection executing the steps of a request                           *)
(***************************************************************************)
MaxFaults == 1        \* statements per request the environment lets fail

\* The error of a statement that fails for a reason outside the database
\* contents (statement timeout).
FaultError == "QueryCanceled"

\* A connection as get_dynamic_db_conn hands it out: autocommit, no
\* transaction, the default search path.
NewConn(tmp) ==
    [status |-> "idle", req |-> NoRequest, steps |-> <<>>, pc |-> 1,
     loc |-> NoLocals, txn |-> "idle", work |-> NoWork,
     saved |-> [search_path |-> <<"public">>, tmp_provsql |-> tmp],
     at_begin |-> [k \in {} |-> {}],
     search_path |-> <<"public">>, tmp_provsql |-> tmp,
     trace |-> <<>>, faults |-> 0, ret |-> FALSE, exc |-> None, cause |-> None,
     after_error |-> FALSE]

\* What the trace of a request keeps of an executed statement: the search
\* path and the transaction status it ran with, the database error it
\* ended with and what the except clauses did with it.
Event(stmt, conn, err, handled) ==
    [stmt |-> stmt, path |-> conn.search_path, txn |-> conn.txn,
     err |-> err, handled |-> handled]

Erred(trace) == \E i \in DOMAIN trace : trace[i].err # None

\* Variant: the exception is handled without leaving the transaction
\* block, and the transaction stays aborted.
LeaveBlockAborted(conn) ==
    IF conn.txn = "idle" THEN conn ELSE [conn EXCEPT !.txn = "inerror"]

\* An exception leaves an `async with self._conn.transaction()` block:
\* ROLLBACK, the changes of the transaction and the session settings made
\* inside it are undone.
LeaveBlock(conn) ==
    IF conn.txn = "idle" THEN conn
    ELSE [conn EXCEPT !.txn = "idle", !.work = NoWork,
                      !.search_path = conn.saved.search_path,
                      !.tmp_provsql = conn.saved.tmp_provsql]

\* The statement of step ins ends with database error err. The first except
\* clause that catches err applies; an error no clause catches goes to the
\* caller as it is. A clause that goes on does so behind the transaction
\* block the statement is in.
Raise(conn, ins, err) ==
    LET hits == SelectSeq(ins.on, LAMBDA x : err \in x.errs \/ "*" \in x.errs)
        h == IF hits = <<>> THEN Handler({err}, "raise", err, FALSE) ELSE Head(hits)
        behind == 1 + (CHOOSE i \in conn.pc..Len(conn.steps) :
                          /\ conn.steps[i].op = "commit"
                          /\ \A j \in conn.pc..(i - 1) : conn.steps[j].op # "commit")
        logged == [conn EXCEPT !.trace = Append(@, Event(ins.stmt, conn, err, h.do))]
    IN CASE h.do = "pass" ->
              [logged EXCEPT !.txn = IF @ = "intrans" THEN "inerror" ELSE @,
                             !.pc = @ + 1]
         [] h.do = "resume" ->
              [LeaveBlock(logged) EXCEPT !.loc.flag = h.flag,
                                         !.pc = behind]
         [] OTHER ->
              [LeaveBlock(logged) EXCEPT !.status = "done", !.exc = h.exc,
                                         !.cause = err]

Running(c) == conns[c].status = "running" /\ conns[c].pc <= Len(conns[c].steps)

Current(c) == conns[c].steps[conns[c].pc]

\* A statement waits while another connection holds a lock on a table it
\* touches: a table the open transaction of that connection has created,
\* replaced, dropped or altered.
Blocked(c, stmt) ==
    \E d \in DOMAIN conns \ {c} :
        LET held == DOMAIN conns[d].work.put \cup conns[d].work.del
                        \cup conns[d].work.padd \cup conns[d].work.pdel
        IN Touched(stmt, View(c), conns[c].loc) \cap held # {}

Session == <<search_path, tmp_provsql, provsql_installed, last, rw, dec>>

\* A method is called on connection c.
StartOn(c, req) ==
    /\ conns' = [conns EXCEPT ![c] =
                    [conns[c] EXCEPT !.status = "running", !.req = req,
                                     !.steps = StepsOf(req), !.pc = 1,
                                     !.loc = NoLocals, !.trace = <<>>, !.faults = 0,
                                     !.ret = FALSE, !.exc = None, !.cause = None,
                                     !.after_error = Erred(conns[c].trace)]]
    /\ UNCHANGED <<tables, provsql>>
    /\ UNCHANGED Session

\* async with self._conn.transaction(): BEGIN
BeginTransaction ==
    \E c \in DOMAIN conns :
        /\ Running(c)
        /\ Current(c).op = "begin"
        /\ conns' = [conns EXCEPT ![c] =
                        [conns[c] EXCEPT !.txn = "intrans",
                                         !.saved = [search_path |-> conns[c].search_path,
                                                    tmp_provsql |-> conns[c].tmp_provsql],
                                         !.at_begin = tables,
                                         !.pc = @ + 1]]
        /\ UNCHANGED <<tables, provsql>>
        /\ UNCHANGED Session

\* The end of the transaction block without an exception: COMMIT, which in
\* an aborted transaction is a rollback.
CommitTransaction ==
    \E c \in DOMAIN conns :
        /\ Running(c)
        /\ Current(c).op = "commit"
        /\ IF conns[c].txn = "intrans"
           THEN /\ tables' = View(c).tables
                /\ provsql' = View(c).provsql
                /\ conns' = [conns EXCEPT ![c] =
                                [conns[c] EXCEPT !.txn = "idle", !.work = NoWork,
                                                 !.pc = @ + 1]]
           ELSE /\ UNCHANGED <<tables, provsql>>
                /\ conns' = [conns EXCEPT ![c] =
                                [conns[c] EXCEPT !.txn = "idle", !.work = NoWork,
                                                 !.search_path =
                                                     IF conns[c].txn = "idle" THEN @
                                                     ELSE conns[c].saved.search_path,
                                                 !.tmp_provsql =
                                                     IF conns[c].txn = "idle" THEN @
                                                     ELSE conns[c].saved.tmp_provsql,
                                                 !.pc = @ + 1]]
        /\ UNCHANGED Session

\* self._conn.execute(...): the statement takes effect, in the transaction
\* if one is open and at once otherwise, or ends with a database error.
ExecuteStatement ==
    \E c \in DOMAIN conns :
        /\ Running(c)
        /\ Current(c).op = "execute"
        /\ ~ Blocked(c, Current(c).stmt)
        /\ LET conn == conns[c]
               ins == Current(c)
               r == IF conn.txn = "inerror"
                    THEN Ended(View(c), conn.loc, "InFailedSqlTransaction")
                    ELSE Effect(ins.stmt, View(c), conn.loc)
           IN IF r.err = None
              THEN /\ conns' = [conns EXCEPT ![c] =
                                  [conn EXCEPT !.trace = Append(@, Event(ins.stmt, conn, None, "")),
                                               !.loc = r.loc,
                                               !.search_path = r.st.search_path,
                                               !.tmp_provsql = r.st.tmp_provsql,
                                               !.work = IF conn.txn = "intrans"
                                                        THEN WorkOf(r.st) ELSE NoWork,
                                               !.pc = @ + 1]]
                   /\ tables' = IF conn.txn = "intrans" THEN tables ELSE r.st.tables
                   /\ provsql' = IF conn.txn = "intrans" THEN provsql ELSE r.st.provsql
              ELSE /\ conns' = [conns EXCEPT ![c] = Raise(conn, ins, r.err)]
                   /\ UNCHANGED <<tables, provsql>>
        /\ UNCHANGED Session

\* The environment lets a statement fail.
FailStatement ==
    \E c \in DOMAIN conns :
        /\ Running(c)
        /\ Current(c).op = "execute"
        /\ conns[c].txn # "inerror"
        /\ conns[c].faults < MaxFaults
        /\ conns' = [conns EXCEPT ![c] =
                        Raise([conns[c] EXCEPT !.faults = @ + 1], Current(c), FaultError)]
        /\ UNCHANGED <<tables, provsql>>
        /\ UNCHANGED Session

\* The Python between the statements: assignments, conditions, returns.
ControlStep ==
    \E c \in DOMAIN conns :
        /\ Running(c)
        /\ LET conn == conns[c]
               ins == Current(c)
           IN /\ ins.op \in {"set_flag", "skip_unless_flag", "skip_if_none_found",
                             "return", "return_none", "raise"}
              /\ conns' = [conns EXCEPT ![c] =
                    CASE ins.op = "set_flag" ->
                            [conn EXCEPT !.loc.flag = ins.value, !.pc = @ + 1]
                      [] ins.op = "skip_unless_flag" ->
                            [conn EXCEPT !.pc = IF conn.loc.flag THEN @ + 1 ELSE @ + 1 + ins.n]
                      [] ins.op = "skip_if_none_found" ->
                            [conn EXCEPT !.pc = IF conn.loc.found = {}
                                                THEN @ + 1 + ins.n ELSE @ + 1]
                      [] ins.op = "return" ->
                            [conn EXCEPT !.loc.rets = Append(@, conn.loc.flag), !.pc = @ + 1]
                      [] ins.op = "return_none" ->
                            [conn EXCEPT !.pc = @ + 1]
                      [] OTHER ->
                            [conn EXCEPT !.status = "done", !.exc = ins.on[1].exc]]
        /\ UNCHANGED <<tables, provsql>>
        /\ UNCHANGED Session

\* The last method of the request has returned: the request returns whether
\* any of them returned true.
FinishRequest ==
    \E c \in DOMAIN conns :
        /\ conns[c].status = "running"
        /\ conns[c].pc > Len(conns[c].steps)
        /\ conns' = [conns EXCEPT ![c] =
                        [conns[c] EXCEPT !.status = "done",
                                         !.ret = \E i \in DOMAIN conns[c].loc.rets :
                                                    conns[c].loc.rets[i]]]
        /\ UNCHANGED <<tables, provsql>>
        /\ UNCHANGED Session

(***************************************************************************)
(* One connection, method after method, with statements that may fail      *)
(***************************************************************************)
\* The calls made on the connection; the queries are a plain one and one
\* with an aggregate.
StepRequests ==
    LET StepQueries ==
            {Select(<<Column("col1", "")>>, Clauses(<<From(Table("t1"))>>, FALSE, FALSE)),
             Select(<<AggFunc("SUM", Column("col2", ""))>>,
                    Clauses(<<From(Table("t1"))>>, TRUE, FALSE))}
    IN {Request("enable_provenance", sc, "t1", <<>>, NullNode, "") : sc \in SchemaNames}
         \cup {Request("remove_provenance", sc, "t1", <<>>, NullNode, "") : sc \in SchemaNames}
         \cup {Request(op, sc, "t1", <<s>>, NullNode, "") :
                  op \in {"add_semiring", "remove_semiring"}, sc \in SchemaNames,
                  s \in Semirings}
         \cup {Request("query", sc, "", <<s>>, q, "") :
                  sc \in SchemaNames, s \in Semirings, q \in StepQueries}
         \cup {Request("annotate_dataset", sc, "t1", sems, NullNode, "") :
                  sc \in SchemaNames, sems \in {l \in SemiringLists : Len(l) = 2}}

InitSteps ==
    /\ tables = [k \in {} |-> {}]
    /\ provsql = {}
    /\ search_path = <<"public">>
    /\ tmp_provsql = FALSE
    /\ provsql_installed \in BOOLEAN
    /\ last = NoCall
    /\ rw = NoRewrite
    /\ dec = NoDecode
    /\ conns \in {<<NewConn(tmp)>> : tmp \in BOOLEAN}

\* The next method is called on the connection once the one before it has
\* returned or raised.
StartCall ==
    \E c \in DOMAIN conns, req \in StepRequests :
        /\ conns[c].status # "running"
        /\ StartOn(c, req)

NextSteps ==
    \/ StartCall
    \/ BeginTransaction
    \/ ExecuteStatement
    \/ FailStatement
    \/ CommitTransaction
    \/ ControlStep
    \/ FinishRequest

SpecSteps == InitSteps /\ [][NextSteps]_vars


(***************************************************************************)
(* Two requests at the same time, each on the connection                   *)
(* get_dynamic_db_conn opened for it                                       *)
(***************************************************************************)
\* Databases the requests find: a new one, one in which enable_provenance
\* has annotated t1 and t2 and the setup script has run, and that one
\* after add_semiring for t1.
Databases ==
    LET Fresh ==
            [tables |-> [k \in {} |-> {}], provsql |-> {}, search_path |-> <<"public">>,
             tmp_provsql |-> FALSE, provsql_installed |-> TRUE]
        Annotated ==
            Effect(SqlExecuteScript,
                   enable_provenance(enable_provenance(Fresh, "s1", "t1").st, "s1", "t2").st,
                   NoLocals).st
        WithSemiring == add_semiring(Annotated, "s1", "t1", Formula).st
    IN {Fresh, Annotated, WithSemiring}

ConcRequests ==
    {Request("ensure_semiring_setup", "", "", <<>>, NullNode, ScriptVersion),
     Request("add_semiring", "s1", "t1", <<Formula>>, NullNode, ""),
     Request("add_semiring", "s1", "t2", <<Formula>>, NullNode, ""),
     Request("remove_semiring", "s1", "t1", <<Formula>>, NullNode, "")}

InitConc ==
    /\ \E db \in Databases :
          /\ tables = db.tables
          /\ provsql = db.provsql
          /\ provsql_installed = db.provsql_installed
    /\ search_path = <<"public">>
    /\ tmp_provsql = FALSE
    /\ last = NoCall
    /\ rw = NoRewrite
    /\ dec = NoDecode
    /\ conns = <<NewConn(FALSE), NewConn(FALSE)>>

\* A request arrives on its connection.
StartRequest ==
    \E c \in DOMAIN conns, req \in ConcRequests :
        /\ conns[c].status = "idle"
        /\ StartOn(c, req)

NextConc ==
    \/ StartRequest
    \/ BeginTransaction
    \/ ExecuteStatement
    \/ CommitTransaction
    \/ ControlStep
    \/ FinishRequest

SpecConc == InitConc /\ [][NextConc]_vars

(***************************************************************************)
(* Properties of the annotation state                                      *)
(***************************************************************************)
SemiringNamed(n) == CHOOSE s \in Semirings : s.name = n

HasTable(tabs, schema_name, name) == <<schema_name, name>> \in DOMAIN tabs

\* Base tables of the schema that have a per-table mapping table T_prov<s>.
AnnotatedFor(tabs, schema_name, s) ==
    {b \in BaseTables :
        /\ b[1] = schema_name
        /\ HasTable(tabs, schema_name, get_provenance_table_name_for(s, b[2]))}

\* The rows the union table must hold: every row of every per-table mapping
\* table of the semiring in the schema, in the stored (bracketed) form.
ExpectedUnion(tabs, schema_name, s) ==
    {Reformat(r) : r \in UNION {tabs[<<schema_name, get_provenance_table_name_for(s, b[2])>>] :
                                    b \in AnnotatedFor(tabs, schema_name, s)}}

UnionExact(tabs, schema_name, s) ==
    IF AnnotatedFor(tabs, schema_name, s) = {}
    THEN ~ HasTable(tabs, schema_name, union_table_name(s))
    ELSE /\ HasTable(tabs, schema_name, union_table_name(s))
         /\ tabs[<<schema_name, union_table_name(s)>>] = ExpectedUnion(tabs, schema_name, s)

UnionCount(tabs, schema_name, s) ==
    IF HasTable(tabs, schema_name, union_table_name(s))
    THEN Cardinality(tabs[<<schema_name, union_table_name(s)>>])
    ELSE 0

\* C1: after every completed add_semiring or remove_semiring call the union
\* table <s>_mapping of the schema holds exactly the rows of the per-table
\* mapping tables *_prov<s> that exist in the schema, and is absent when
\* there is none.
C1_UnionReflectsAnnotatedTables ==
    (last.op \in {"add_semiring", "remove_semiring"} /\ last.exc = None)
        => UnionExact(tables, last.schema, SemiringNamed(last.semirings[1]))

\* C2: annotate_dataset(T, S, [s]) on a table without annotation, followed by
\* remove_annotation(T, S, [s]), leaves no mapping table T_prov<s>, and no
\* union table <s>_mapping when no other table of S is annotated for s.
C2_AnnotateThenRemoveRestores ==
    (last.op = "remove_annotation" /\ last.chain /\ Len(last.semirings) = 1
        /\ last.exc = None)
        => LET s == SemiringNamed(last.semirings[1])
           IN /\ ~ HasTable(tables, last.schema,
                            get_provenance_table_name_for(s, last.table))
              /\ AnnotatedFor(tables, last.schema, s) = {}
                    => ~ HasTable(tables, last.schema, union_table_name(s))

C4_RemoveReportsExistence ==
    [][/\ last'.op = "remove_semiring" =>
            LET s == SemiringNamed(last'.semirings[1])
                prov_table == get_provenance_table_name_for(s, last'.table)
                existed == HasTable(tables, last'.schema, prov_table)
            IN /\ last'.ret = existed
               /\ last'.exc = None
               /\ existed =>
                    /\ ~ HasTable(tables', last'.schema, prov_table)
                    /\ AnnotatedFor(tables', last'.schema, s) # {}
                          => UnionExact(tables', last'.schema, s)
               /\ ~ existed => (tables' = tables /\ provsql' = provsql)
       /\ (/\ last'.op = "remove_annotation"
           /\ \A i \in 1..Len(last'.semirings) :
                 ~ HasTable(tables, last'.schema,
                            get_provenance_table_name_for(
                                SemiringNamed(last'.semirings[i]), last'.table)))
            => /\ ~ last'.ret
               /\ last'.exc = None
               /\ tables' = tables
               /\ provsql' = provsql]_vars

C4_Witness ==
    /\ last.op = "remove_semiring"
    /\ last.ret
    /\ ~ HasTable(tables, last.schema,
                  get_provenance_table_name_for(SemiringNamed(last.semirings[1]), last.table))
    /\ AnnotatedFor(tables, last.schema, SemiringNamed(last.semirings[1])) # {}
    /\ UnionExact(tables, last.schema, SemiringNamed(last.semirings[1]))

(***************************************************************************)
(* Properties of the rewriter                                              *)
(***************************************************************************)
\* Nodes of an expression that are not inside a nested subquery or SELECT.
RECURSIVE TopLevelNodes(_)
TopLevelNodes(e) ==
    IF e.type \in {"Subquery", "Select"} THEN {}
    ELSE {e} \cup UNION {TopLevelNodes(Children(e)[i]) : i \in 1..Len(Children(e))}

AggregateBearing(e) == \E n \in TopLevelNodes(e) : n.type = "AggFunc"

HasGroupBy(q) == \E i \in 1..Len(q.args) : q.args[i].type = "Group"

\* An aggregate SELECT: outer GROUP BY plus a top-level aggregate.
IsAggregateSelect(q) ==
    /\ q.type = "Select"
    /\ HasGroupBy(q)
    /\ \E i \in 1..Len(q.expressions) : AggregateBearing(q.expressions[i])

IsNonAggregateSelect(q) == q.type = "Select" /\ ~ IsAggregateSelect(q)

\* The query contains a HAVING clause, at the outer level or nested.
ContainsHaving(q) == \E i \in 1..Len(Walk(<<q>>)) : Walk(<<q>>)[i].type = "Having"

Contains(str, sub) ==
    \E i \in 1..(Len(str) - Len(sub) + 1) : SubSeq(str, i, i + Len(sub) - 1) = sub

RwSemiring == SemiringNamed(rw.semiring)

\* s.retrieval_function(provenance(), '<s.mapping_table>')
RetrievalCall(s) ==
    Anonymous(s.retrieval_function,
              <<Anonymous("provenance", <<>>), Literal_string(s.mapping_table)>>)

AppendsRetrievalCall ==
    /\ rw.out.exc = None
    /\ rw.out.ast.type = "Select"
    /\ rw.out.ast.expressions = Append(rw.query.expressions, RetrievalCall(RwSemiring))
    /\ rw.out.ast.args = rw.query.args
    /\ rw.out.ast.name = rw.query.name

\* C5: for every valid non-aggregate SELECT q (valid: it contains no HAVING
\* clause) and every semiring s, rewrite(q, s) is q with its projections in
\* the same order followed by one trailing s.retrieval_function(
\* provenance(), '<s.mapping_table>'), every other clause unchanged.
C5_NonAggregateAppends ==
    (rw.called /\ IsNonAggregateSelect(rw.query) /\ ~ ContainsHaving(rw.query))
        => AppendsRetrievalCall

C5_Witness ==
    /\ rw.called
    /\ IsNonAggregateSelect(rw.query)
    /\ ~ ContainsHaving(rw.query)
    /\ Len(rw.query.expressions) = 2
    /\ rw.query.expressions[1] # rw.query.expressions[2]
    /\ rw.semiring = "why"
    /\ Len(rw.out.ast.expressions) = 3
    /\ rw.out.ast.expressions[3] = RetrievalCall(Why)

\* Index of the first aggregate-bearing projection.
FirstAggregate(q) ==
    CHOOSE i \in 1..Len(q.expressions) :
        /\ AggregateBearing(q.expressions[i])
        /\ \A j \in 1..(i - 1) : ~ AggregateBearing(q.expressions[j])

\* sub is q, except that aggregate-bearing projections without an alias
\* are wrapped in an alias.
IsAliased(q, sub) ==
    /\ sub.type = "Select"
    /\ sub.args = q.args
    /\ Len(sub.expressions) = Len(q.expressions)
    /\ \A i \in 1..Len(q.expressions) :
          IF AggregateBearing(q.expressions[i]) /\ q.expressions[i].type # "Alias"
          THEN /\ sub.expressions[i].type = "Alias"
               /\ sub.expressions[i].args = <<q.expressions[i]>>
               /\ sub.expressions[i].name # ""
          ELSE sub.expressions[i] = q.expressions[i]

WrapsAsSubquery ==
    LET q == rw.query
        s == RwSemiring
        out == rw.out.ast
        sub == out.args[1].args[1].args[1]
        non_agg == SelectSeq(q.expressions, LAMBDA e : ~ AggregateBearing(e))
    IN /\ rw.out.exc = None
       /\ out.type = "Select"
       /\ Len(out.args) = 1
       /\ out.args[1].type = "From"
       /\ out.args[1].args[1].type = "Subquery"
       /\ out.args[1].args[1].name = "x"
       /\ IsAliased(q, sub)
       /\ out.expressions =
            [i \in 1..Len(non_agg) |-> Column(alias_or_name(non_agg[i]), "x")]
            \o <<Anonymous(s.aggregate_function,
                           <<Column(sub.expressions[FirstAggregate(q)].name, "x"),
                             Literal_string(s.mapping_table)>>)>>

\* C6 as stated: for every aggregate SELECT q and every semiring with an
\* aggregate_function the result is the wrapping SELECT.
C6_Original ==
    (rw.called /\ IsAggregateSelect(rw.query) /\ RwSemiring.aggregate_function # None)
        => WrapsAsSubquery

\* C6: for every aggregate SELECT q that contains no HAVING clause and every
\* semiring s with an aggregate_function, rewrite(q, s) is SELECT <the
\* non-aggregate projections of q by name through x, in order>,
\* s.aggregate_function(x.<alias of the first aggregate-bearing projection>,
\* '<s.mapping_table>') FROM (q) AS x, with exactly one such call.
C6_AggregateWraps ==
    (rw.called /\ IsAggregateSelect(rw.query) /\ ~ ContainsHaving(rw.query)
        /\ RwSemiring.aggregate_function # None)
        => WrapsAsSubquery

\* SELECT col1, COUNT(*), SUM(col2) AS total ... GROUP BY col1: two
\* aggregate-bearing projections, the first without an alias.
C6_Witness ==
    /\ rw.called
    /\ IsAggregateSelect(rw.query)
    /\ ~ ContainsHaving(rw.query)
    /\ rw.semiring = "formula"
    /\ Len(rw.query.expressions) = 3
    /\ ~ AggregateBearing(rw.query.expressions[1])
    /\ rw.query.expressions[2].type = "AggFunc"
    /\ rw.query.expressions[3].type = "Alias"
    /\ AggregateBearing(rw.query.expressions[3])
    /\ rw.out.exc = None
    /\ Len(rw.out.ast.expressions) = 2
    /\ rw.out.ast.expressions[2].expressions[1]
          = Column("agg_result_" \o ToString(rw.alias_counter), "x")

NotSupported(exc, msg, semiring_name) ==
    /\ exc = "SemiringOperationNotSupportedError"
    /\ Contains(msg, semiring_name)
    /\ Contains(msg, "aggregate queries")

SurfacesNotSupported ==
    /\ rw.called /\ RwSemiring.aggregate_function = None
          => /\ NotSupported(rw.out.exc, rw.out.msg, rw.semiring)
             /\ rw.out.ast = NullNode
    /\ (/\ last.op = "compute_provenance"
        /\ last.semirings # <<>>
        /\ SemiringNamed(last.semirings[1]).aggregate_function = None)
          => /\ NotSupported(last.exc, last.msg, last.semirings[1])
             /\ last.results = <<>>

UnsupportedQueryError(out) ==
    \/ out.exc = "NotImplementedError"
    \/ /\ out.exc = "ValueError"
       /\ out.msg \in {"Expected SELECT query", "Expected query to be a SELECT query"}

\* C8: rewrite fails with the unsupported-query error, returning no query,
\* for every query that contains a HAVING clause, whatever its shape and
\* whatever the semiring.
C8_HavingRejected ==
    (rw.called /\ ContainsHaving(rw.query))
        => (UnsupportedQueryError(rw.out) /\ rw.out.ast = NullNode)

AggregatePathCondition(q) ==
    /\ HasGroupBy(q)
    /\ \E i \in 1..Len(q.expressions) : AggregateBearing(q.expressions[i])

PathFollowsCondition ==
    /\ rw.out.path = "aggregate" <=> AggregatePathCondition(rw.query)
    /\ ~ AggregatePathCondition(rw.query) => rw.out.path = "non_aggregate"

\* C9 as stated: every SELECT takes the aggregate path exactly when it has
\* a top-level aggregate and a GROUP BY, and the non-aggregate path else.
C9_Original == (rw.called /\ rw.query.type = "Select") => PathFollowsCondition

\* C9: for a SELECT that contains no HAVING clause, rewrite takes the
\* aggregate path exactly when the projection contains an aggregate call
\* outside any nested subquery and the SELECT has a GROUP BY; aggregates
\* only inside a subquery, or no GROUP BY, give the non-aggregate path.
C9_PathSelection ==
    (rw.called /\ rw.query.type = "Select" /\ ~ ContainsHaving(rw.query))
        => PathFollowsCondition

\* SELECT (SELECT MAX(col2) FROM t2) ... GROUP BY col1
C9_Witness ==
    /\ rw.called
    /\ rw.query.type = "Select"
    /\ ~ ContainsHaving(rw.query)
    /\ HasGroupBy(rw.query)
    /\ Len(rw.query.expressions) = 1
    /\ rw.query.expressions[1].type = "Subquery"
    /\ \E i \in 1..Len(Walk(<<rw.query.expressions[1]>>)) :
          Walk(<<rw.query.expressions[1]>>)[i].type = "AggFunc"
    /\ rw.out.path = "non_aggregate"

\* C10: rewrite fails, returning no query, for every query whose root
\* statement is not a SELECT, on either path.
C10_NonSelectRejected ==
    (rw.called /\ rw.query.type # "Select")
        => (rw.out.exc # None /\ rw.out.ast = NullNode)

(***************************************************************************)
(* Properties of the mapping strategy                                      *)
(***************************************************************************)
OfKind(frs, kind) == SelectSeq(frs, LAMBDA f : f.kind = kind)

\* C11: for a string made of brace-wrapped tokens {<table>@p<page>r<row>}
\* as encode produces them (table without '@', '{', '}'; page and row
\* non-negative), decode_equation returns one RowReference per token, in
\* order of appearance, with the token's table, page and row; for a single
\* token exactly one.
C11_DecodeRoundTrip ==
    (dec.called /\ OfKind(dec.fragments, "malformed") = <<>>)
        => /\ dec.out.exc = None
           /\ dec.out.ret = [k \in 1..Len(OfKind(dec.fragments, "token")) |->
                                OfKind(dec.fragments, "token")[k].ref]

C11_Witness ==
    /\ dec.called
    /\ Len(dec.fragments) = 3
    /\ OfKind(dec.fragments, "token") = dec.fragments
    /\ dec.fragments[1].ref = RowCtid("p1r2", MaxPage, 1)
    /\ dec.fragments[2].ref = RowCtid("t1", 0, MaxRow)
    /\ dec.fragments[3] # dec.fragments[2]
    /\ dec.fragments[3].ref = dec.fragments[2].ref
    /\ Len(dec.out.ret) = 3
    /\ dec.out.ret[1].page = MaxPage

\* C12: decode_equation raises a decode error whenever its input contains a
\* malformed token fragment; it never returns a list from which such a
\* fragment has been left out.
C12_MalformedRaises ==
    (dec.called /\ OfKind(dec.fragments, "malformed") # <<>>) => dec.out.exc # None

(***************************************************************************)
(* Purity of the rewriter                                                  *)
(***************************************************************************)
\* Every other call with the arguments of the recorded one, whatever number
\* random.randint draws, gives the recorded outcome.
SameForEveryDraw ==
    \A c \in AliasCounters : rewrite(rw.query, RwSemiring, c) = rw.out

\* The syntax tree with every generated alias name agg_result_<n> replaced
\* by one fixed name.
RECURSIVE WithoutGeneratedNames(_)
WithoutGeneratedNames(node) ==
    [type |-> node.type,
     name |-> IF Len(node.name) > 11 /\ SubSeq(node.name, 1, 11) = "agg_result_"
              THEN "agg_result_" ELSE node.name,
     table |-> node.table,
     expressions |-> [i \in 1..Len(node.expressions) |->
                         WithoutGeneratedNames(node.expressions[i])],
     args |-> [i \in 1..Len(node.args) |-> WithoutGeneratedNames(node.args[i])]]

\* The call generates an alias: it returns from the aggregate path and an
\* aggregate-bearing projection of the rewritten SELECT has no alias.
GeneratesAlias ==
    /\ rw.out.exc = None
    /\ rw.out.path = "aggregate"
    /\ \E i \in 1..Len(find(rw.query, "Select").expressions) :
          /\ AggregateBearing(find(rw.query, "Select").expressions[i])
          /\ find(rw.query, "Select").expressions[i].type # "Alias"

MappingTableOf(call, i) ==
    get_provenance_table_name_for(SemiringNamed(call.semirings[i]), call.table)

OtherMappingTables(tabs, call) ==
    {k \in DOMAIN tabs :
        \E s \in Semirings, t \in TableNames :
            /\ s.name \notin {call.semirings[i] : i \in 1..Len(call.semirings)}
            /\ k = <<call.schema, get_provenance_table_name_for(s, t)>>}

OpenAfter(log, k) ==
    Cardinality({i \in 1..k : log[i].event = "begin"})
        - Cardinality({i \in 1..k : log[i].event # "begin"})

Begun(log) == SelectSeq(log, LAMBDA e : e.event = "begin")

\* C16: compute_provenance runs query once per semiring in list order, one
\* after the other on the connection (at no point are two transactions
\* open), and returns exactly one result array per semiring in the order of
\* the input list.
C16_SequentialInOrder ==
    last.op = "compute_provenance" =>
        /\ \A k \in 0..Len(last.log) : OpenAfter(last.log, k) \in {0, 1}
        /\ OpenAfter(last.log, Len(last.log)) = 0
        /\ Len(Begun(last.log)) <= Len(last.semirings)
        /\ \A i \in 1..Len(Begun(last.log)) : Begun(last.log)[i].semiring = last.semirings[i]
        /\ last.exc = None =>
              /\ Len(Begun(last.log)) = Len(last.semirings)
              /\ \A k \in 1..Len(last.log) : last.log[k].event \in {"begin", "commit"}
              /\ Len(last.results) = Len(last.semirings)
              /\ \A i \in 1..Len(last.results) :
                    /\ Len(last.results[i]) = NumRows
                    /\ \A j \in 1..NumRows :
                          last.results[i][j].semiring = last.semirings[i]

C16_Witness ==
    /\ last.op = "compute_provenance"
    /\ last.semirings = <<"why", "formula">>
    /\ last.exc = None
    /\ Len(last.log) = 4
    /\ Len(last.results) = 2
    /\ last.results[1][1].column = "whyprov_now"

\* C17: query raises TableNotAnnotatedError naming the semiring when the
\* execution of the rewritten query fails because the semiring's mapping
\* table is undefined, and ProvSqlInternalError when the native extension
\* reports an internal error; in both cases the database error is attached
\* as the cause and no rows are returned.
C17_QueryErrorTranslation ==
    last.op = "query" =>
        LET s == SemiringNamed(last.semirings[1])
            st1 == set_search_path(Cur, last.schema)
            edited == rewrite(rw.query, s, RandLo)
            mapping_undefined == Resolve(st1, s.mapping_table) = None
            all_defined == \A n \in RelationsOf(edited.ast, s) : Resolve(st1, n) # None
        IN edited.exc = None =>
              /\ mapping_undefined =>
                    /\ last.exc = "TableNotAnnotatedError"
                    /\ Contains(last.msg, "'" \o s.name \o "'")
                    /\ last.cause = "UndefinedTable"
                    /\ last.results = <<>>
              /\ (all_defined /\ last.internal_errors[1]) =>
                    /\ last.exc = "ProvSqlInternalError"
                    /\ last.cause = "InternalError_"
                    /\ last.results = <<>>

\* t1 is annotated for formula only and the query over t1 is run for why.
C17_Witness ==
    /\ last.op = "query"
    /\ last.schema = "s1"
    /\ last.semirings = <<"why">>
    /\ HasTable(tables, "s1", "formula_mapping")
    /\ ~ HasTable(tables, "s1", "why_mapping")
    /\ <<"s1", "t1">> \in provsql
    /\ last.exc = "TableNotAnnotatedError"
    /\ last.cause = "UndefinedTable"

(***************************************************************************)
(* Properties of the repository calls                                      *)
(***************************************************************************)
\* C18: enable_provenance returns true when it newly adds the provenance
\* column; on a table that has the column it returns false, raises nothing
\* and leaves the table as it was; on a table or schema that does not exist
\* it raises TableOrSchemaNotFoundError; when the native extension is
\* missing it raises ProvSqlMissingError.
C18_EnableProvenanceOutcomes ==
    [][last'.op = "enable_provenance" =>
          LET b == <<last'.schema, last'.table>>
          IN /\ ~ provsql_installed =>
                   /\ last'.exc = "ProvSqlMissingError"
                   /\ provsql' = provsql
             /\ (provsql_installed /\ b \notin BaseTables) =>
                   /\ last'.exc = "TableOrSchemaNotFoundError"
                   /\ provsql' = provsql
             /\ (provsql_installed /\ b \in BaseTables /\ b \notin provsql) =>
                   /\ last'.exc = None
                   /\ last'.ret
                   /\ provsql' = provsql \cup {b}
             /\ (provsql_installed /\ b \in BaseTables /\ b \in provsql) =>
                   /\ last'.exc = None
                   /\ ~ last'.ret
                   /\ provsql' = provsql
             /\ tables' = tables]_vars

\* enable_provenance on a table that has the column and a mapping table.
C18_Witness ==
    /\ last.op = "enable_provenance"
    /\ last.exc = None
    /\ ~ last.ret
    /\ <<last.schema, last.table>> \in provsql
    /\ HasTable(tables, last.schema, last.table \o "_provformula")

EndsWith(name, suffix) ==
    /\ Len(name) >= Len(suffix)
    /\ SubSeq(name, Len(name) - Len(suffix) + 1, Len(name)) = suffix

\* Names of the tables of the schema that end with the semiring's suffix.
Matching(tabs, schema_name, s) ==
    {k[2] : k \in {d \in DOMAIN tabs : d[1] = schema_name /\ EndsWith(d[2], table_suffix(s))}}

RECURSIVE TotalRows(_, _, _)
TotalRows(tabs, schema_name, names) ==
    IF names = {} THEN 0
    ELSE LET n == CHOOSE x \in names : TRUE
         IN Cardinality(tabs[<<schema_name, n>>]) + TotalRows(tabs, schema_name, names \ {n})

\* The union table is the UNION ALL of the matching tables: it holds their
\* rows, in the stored form, and one row for each of them.
IsUnionAll(tabs, schema_name, s) ==
    LET names == Matching(tabs, schema_name, s)
        key == <<schema_name, union_table_name(s)>>
    IN /\ key \in DOMAIN tabs
       /\ tabs[key] = {Reformat(r) : r \in UNION {tabs[<<schema_name, n>>] : n \in names}}
       /\ Cardinality(tabs[key]) = TotalRows(tabs, schema_name, names)

WrappedSelect == rw.out.ast.args[1].args[1].args[1]

TookAggregatePath == rw.called /\ rw.out.exc = None /\ rw.out.path = "aggregate"

\* Positions of the projections that are given a generated alias.
GeneratedAt(q) ==
    {i \in 1..Len(q.expressions) :
        AggregateBearing(q.expressions[i]) /\ q.expressions[i].type # "Alias"}

\* The aliases and column names the query projects.
ProjectedNames(q) ==
    {alias_or_name(q.expressions[i]) : i \in 1..Len(q.expressions)} \ {""}

\* C21: in the aggregate path every aggregate-bearing projection of the
\* wrapped subquery carries an alias; a projection that lacked one carries a
\* generated alias, and the generated aliases of one rewrite differ from each
\* other and from every alias and column name the query already projects.
C21_GeneratedAliasesUnique ==
    TookAggregatePath
        => LET q == rw.query
               sub == WrappedSelect
           IN /\ \A i \in 1..Len(sub.expressions) :
                    AggregateBearing(sub.expressions[i])
                        => /\ sub.expressions[i].type = "Alias"
                           /\ sub.expressions[i].name # ""
              /\ \A i \in GeneratedAt(q) : sub.expressions[i].args = <<q.expressions[i]>>
              /\ \A i \in GeneratedAt(q), j \in GeneratedAt(q) :
                    i # j => sub.expressions[i].name # sub.expressions[j].name
              /\ \A i \in GeneratedAt(q) :
                    sub.expressions[i].name \notin ProjectedNames(q)

(***************************************************************************)
(* Properties of the resolution of references                              *)
(***************************************************************************)
\* The references of the tokens of the provenance string, in order.
TokenRefs ==
    [k \in 1..Len(OfKind(dec.fragments, "token")) |-> OfKind(dec.fragments, "token")[k].ref]

\* The referenced row is in the table: base tables hold NumRows rows, all on
\* page 0.
RowFound(schema, ref) ==
    /\ <<schema, ref.table>> \in BaseTables
    /\ ref.page = 0
    /\ ref.row \in 1..NumRows

Count(seq, Test(_)) == Len(SelectSeq(seq, Test))

Fetched == last.op = "_fetch_related_data"

\* Every referenced table is a table of the schema the query runs in.
TablesResolve == \A k \in 1..Len(TokenRefs) : <<last.schema, TokenRefs[k].table>> \in BaseTables

\* C22: fetch_related_data returns one {reference, data} entry for each
\* decoded reference whose row is found, with reference table@p<page>r<row>
\* and data the row without its ctid; a reference whose row is not found
\* gives no entry and no error, so the result has no more entries than there
\* are references and no reference that was not in the token. (The tables
\* named by the token are tables of the schema, as for every token a query
\* on that schema produces.)
C22_FetchRelatedData ==
    (Fetched /\ TablesResolve)
        => /\ last.exc = None
           /\ Len(last.results) <= Len(TokenRefs)
           /\ \A k \in 1..Len(TokenRefs) :
                 Count(last.results, LAMBDA e :
                          e.reference = encode(TokenRefs[k].table, TokenRefs[k].page,
                                               TokenRefs[k].row))
                    = IF RowFound(last.schema, TokenRefs[k])
                      THEN Count(TokenRefs, LAMBDA x : x = TokenRefs[k])
                      ELSE 0
           /\ \A i \in 1..Len(last.results) :
                 \E k \in 1..Len(TokenRefs) :
                    /\ last.results[i].reference
                          = encode(TokenRefs[k].table, TokenRefs[k].page, TokenRefs[k].row)
                    /\ last.results[i].data
                          = [id |-> TokenRefs[k].row,
                             name |-> TokenRefs[k].table \o "#" \o ToString(TokenRefs[k].row)]

\* {t1@p0r1}{t1@p0r<MaxRow>}{t2@p0r1}: the second row is not in t1.
C22_Witness ==
    /\ Fetched
    /\ last.schema = "s1"
    /\ TokenRefs = <<RowCtid("t1", 0, 1), RowCtid("t1", 0, MaxRow), RowCtid("t2", 0, 1)>>
    /\ last.exc = None
    /\ Len(last.results) = 2
    /\ last.results[2].reference = "t2@p0r1"


(***************************************************************************)
(* Properties of the methods statement by statement                        *)
(***************************************************************************)
RebuildKinds ==
    {"select_tablenames", "drop_union", "create_union", "alter_value",
     "update_value", "add_primary_key"}

UnionKeys == {<<sc, union_table_name(s)>> : sc \in SchemaNames, s \in Semirings}

\* The union tables among tabs, with their rows.
Unions(tabs) == [k \in DOMAIN tabs \cap UnionKeys |-> tabs[k]]

\* The value of every row went through the UPDATE of the rebuild.
PostProcessed(rows) ==
    \A r \in rows : Len(r.value) >= 3 /\ SubSeq(r.value, 1, 3) = "{\"{"

LastEvent(c) == conns[c].trace[Len(conns[c].trace)]

\* C23: every statement a method called with schema S executes and that
\* names a relation without its schema runs with the search path
\* S, public, provsql, whatever schema the calls before it on the same
\* connection had.
C23_SearchPathInEffect ==
    \A c \in DOMAIN conns :
        \A i \in DOMAIN conns[c].trace :
            conns[c].trace[i].stmt.unq =>
                conns[c].trace[i].path = <<conns[c].req.schema, "public", "provsql">>

\* C23 witness: a call whose connection still had the path of a call with
\* another schema when it started has executed a statement that names a
\* relation without its schema.
C23_Witness ==
    \E c \in DOMAIN conns :
        /\ conns[c].trace # <<>>
        /\ \E sc \in SchemaNames \ {conns[c].req.schema} :
              conns[c].trace[1].path = <<sc, "public", "provsql">>
        /\ \E i \in DOMAIN conns[c].trace :
              conns[c].trace[i].stmt.unq /\ conns[c].trace[i].err = None

\* C24: when a repository operation has ended after one of its statements
\* ended with a database error, caught or raised, the connection has no
\* open or aborted transaction and no uncommitted change, and no statement
\* of any operation is refused because the transaction is aborted.
C24_RolledBackAfterError ==
    \A c \in DOMAIN conns :
        /\ (conns[c].status = "done" /\ Erred(conns[c].trace)) =>
              (conns[c].txn = "idle" /\ conns[c].work = NoWork)
        /\ \A i \in DOMAIN conns[c].trace :
              /\ conns[c].trace[i].err # "InFailedSqlTransaction"
              /\ conns[c].trace[i].txn # "inerror"

\* C24 witness: the operation after one that ended with a database error
\* has run to its end and returned true.
C24_Witness ==
    \E c \in DOMAIN conns :
        /\ conns[c].after_error
        /\ conns[c].status = "done"
        /\ conns[c].exc = None
        /\ conns[c].ret
        /\ ~ Erred(conns[c].trace)

\* C26: a database error that is caught and not raised is a duplicate
\* column of add_provenance, a duplicate table of create_provenance_mapping
\* or an undefined column of remove_provenance.
C26_OnlyDocumentedCaught ==
    \A c \in DOMAIN conns :
        \A i \in DOMAIN conns[c].trace :
            LET e == conns[c].trace[i]
            IN (e.err # None /\ e.handled \in {"pass", "resume"}) =>
                  \/ e.stmt.kind = "add_provenance" /\ e.err = "DuplicateColumn"
                  \/ e.stmt.kind = "create_provenance_mapping" /\ e.err = "DuplicateTable"
                  \/ e.stmt.kind = "remove_provenance" /\ e.err = "UndefinedColumn"

\* C29: the union tables other connections can see do not change while a
\* transaction is open, are what they were before the rebuild when a step
\* of the rebuild has failed, and are never seen before the value column
\* is post-processed.
C29_RebuildAllOrNothing ==
    /\ \A c \in DOMAIN conns :
          /\ conns[c].txn # "idle" => Unions(tables) = Unions(conns[c].at_begin)
          /\ (/\ conns[c].status = "done"
              /\ conns[c].exc # None
              /\ conns[c].trace # <<>>
              /\ LastEvent(c).stmt.kind \in RebuildKinds) =>
                Unions(tables) = Unions(conns[c].at_begin)
    /\ \A k \in DOMAIN tables \cap UnionKeys : PostProcessed(tables[k])

\* C29 witness: a rebuild has failed after its DROP TABLE, and the union
\* table that was there before is there with its rows.
C29_Witness ==
    \E c \in DOMAIN conns :
        /\ conns[c].status = "done"
        /\ conns[c].exc # None
        /\ conns[c].trace # <<>>
        /\ LastEvent(c).stmt.kind \in {"create_union", "alter_value", "update_value",
                                       "add_primary_key"}
        /\ <<LastEvent(c).stmt.schema, LastEvent(c).stmt.name>> \in DOMAIN tables
        /\ tables[<<LastEvent(c).stmt.schema, LastEvent(c).stmt.name>>] # {}

\* The statements of add_semiring that have been executed in the request.
Attempts(c) ==
    SelectSeq(conns[c].trace, LAMBDA e : e.stmt.kind = "drop_tmp_provsql")

\* A statement ended with an error that add_semiring and enable_provenance
\* do not turn into a return value.
Failure(e) ==
    /\ e.err # None
    /\ e.stmt.kind # "drop_tmp_provsql"
    /\ ~ (e.stmt.kind = "create_provenance_mapping" /\ e.err = "DuplicateTable")
    /\ ~ (e.stmt.kind = "add_provenance" /\ e.err = "DuplicateColumn")

\* What add_semiring makes for semiring s: the mapping table and the union
\* table.
InPlace(schema_name, table_name, s) ==
    /\ <<schema_name, get_provenance_table_name_for(s, table_name)>> \in DOMAIN tables
    /\ <<schema_name, union_table_name(s)>> \in DOMAIN tables

\* C30: when a statement of annotate_dataset has failed, the request has
\* ended with the error and nothing was executed after the failed
\* statement; if it failed in an add_semiring, the provenance column is
\* there, and so are the mapping table and the union table of every
\* semiring before it whose add_semiring created them.
C30_NoRollbackOnPartialFailure ==
    \A c \in DOMAIN conns :
        (/\ conns[c].req.op = "annotate_dataset"
         /\ \E i \in DOMAIN conns[c].trace : Failure(conns[c].trace[i])) =>
            /\ conns[c].status = "done"
            /\ conns[c].exc # None
            /\ Failure(LastEvent(c))
            /\ Attempts(c) # <<>> => <<conns[c].req.schema, conns[c].req.table>> \in provsql
            /\ \A j \in 1..(Len(Attempts(c)) - 1) :
                  conns[c].loc.rets[j + 1] =>
                      InPlace(conns[c].req.schema, conns[c].req.table,
                              conns[c].req.semirings[j])

\* C30 witness: annotate_dataset has ended with an error of its second
\* add_semiring, and the first semiring is in place.
C30_Witness ==
    \E c \in DOMAIN conns :
        /\ conns[c].req.op = "annotate_dataset"
        /\ conns[c].status = "done"
        /\ conns[c].exc # None
        /\ Len(Attempts(c)) = 2
        /\ Failure(LastEvent(c))
        /\ conns[c].loc.rets[2]
        /\ <<conns[c].req.schema, conns[c].req.table>> \in provsql
        /\ InPlace(conns[c].req.schema, conns[c].req.table, conns[c].req.semirings[1])

(***************************************************************************)
(* Properties of requests at the same time                                 *)
(***************************************************************************)
\* How often connection c has executed the setup script.
ScriptRuns(c) ==
    Len(SelectSeq(conns[c].trace, LAMBDA e : e.stmt.kind = "execute_script"))

HasReturned(c, op) ==
    conns[c].status = "done" /\ conns[c].req.op = op /\ conns[c].exc = None

\* C25: over the ensure_semiring_setup(v) calls against one database the
\* setup script is executed at most once, and a call that has returned
\* leaves the canary at version v.
C25_ScriptExecutedOnce ==
    /\ \A c \in DOMAIN conns, d \in DOMAIN conns :
          c # d => ScriptRuns(c) + ScriptRuns(d) <= 1
    /\ \A c \in DOMAIN conns :
          HasReturned(c, "ensure_semiring_setup") =>
              /\ CanaryTable \in DOMAIN tables
              /\ \E row \in tables[CanaryTable] :
                    row.script_name = script_name /\ row.version = conns[c].req.version

\* C27: when two add_semiring calls for the same semiring and schema and
\* different tables on two connections have both returned, the union table
\* holds the mapping rows of both tables.
C27_UnionHasBothTables ==
    \A c \in DOMAIN conns, d \in DOMAIN conns :
        (/\ c # d
         /\ HasReturned(c, "add_semiring")
         /\ HasReturned(d, "add_semiring")
         /\ conns[c].req.schema = conns[d].req.schema
         /\ conns[c].req.semirings = conns[d].req.semirings
         /\ conns[c].req.table # conns[d].req.table) =>
            LET key == <<conns[c].req.schema, union_table_name(conns[c].req.semirings[1])>>
            IN /\ key \in DOMAIN tables
               /\ \A t \in {conns[c].req.table, conns[d].req.table} :
                     {Reformat(r) : r \in MappingRows(conns[c].req.schema, t)}
                         \subseteq tables[key]

\* C28: when two remove_semiring calls for the same table, schema and
\* semiring on two connections have both ended, neither has raised and
\* they have not both returned true.
C28_ConcurrentRemoveSemiring ==
    \A c \in DOMAIN conns, d \in DOMAIN conns :
        (/\ c # d
         /\ conns[c].status = "done" /\ conns[c].req.op = "remove_semiring"
         /\ conns[d].status = "done" /\ conns[d].req = conns[c].req) =>
            /\ conns[c].exc = None
            /\ conns[d].exc = None
            /\ ~ (conns[c].ret /\ conns[d].ret)

====
